---- MODULE Spec2Model ----
(***************************************************************************)
(* Model of the avpipe session and I/O bridging layer.                     *)
(*                                                                         *)
(*  - the Go handle registry and I/O dispatcher (gHandlers, gHandleNum,    *)
(*    gFd, gMutex, NewIOHandler, AVPipe*Input, AVPipe*Output);             *)
(*  - the C session table (tx_table, tx_init, tx_run, tx_cancel) with the  *)
(*    engine loop avpipe_tx;                                               *)
(*  - the C I/O callbacks the engine calls (out_write_packet, ...).        *)
(*                                                                         *)
(* Spec    : dispatcher calls made by concurrent threads, each call split  *)
(*           at the points where gMutex is released.                       *)
(* SpecTx  : the session lifecycle in avpipe.c on top of the dispatcher.   *)
(* SpecCb  : the engine's I/O callbacks of one session.                    *)
(***************************************************************************)
EXTENDS Integers, Sequences, FiniteSets, TLC

(***************************************************************************)
(* Bounds of the model.                                                    *)
(***************************************************************************)
\* NewIOHandler calls explored (cap on gHandleNum).
MaxHandleNum == 2
\* AVPipeOpenOutput calls explored (cap on gFd).
MaxFd == 2

Threads    == {"t1", "t2"}
HandleArgs == 0..MaxHandleNum      \* handle values a caller may name
SlotArgs   == 1..MaxFd             \* slot ids a caller may name
StreamIdx  == {0, 1}               \* stream_index values
SegIdx     == {1, 2}               \* seg_index values

VARIABLES
    \* ---- Go registry (part_004) ----
    gHandleNum,   \* var gHandleNum int64
    gFd,          \* var gFd int64
    gHandlers,    \* var gHandlers map[int64]*ioHandler: 0 is nil, else the ioHandler
    inputs,       \* the InputHandler made by InputOpener.Open(fd, url), per fd:
                  \*   opened = number of successful Open(fd, .), closed = Close was called
    outTable,     \* ioHandler.outTable per handle: slot -> the OutputHandler put there
                  \*   (opened = number of handlers opened under the slot, closed,
                  \*    replaced, late)
    panicked,     \* a Go panic ended the process
    \* ---- callers of the dispatcher ----
    pc, loc,      \* position and locals of each thread's call in progress
    ret,          \* the last return of a dispatcher call
    \* ---- C session table (avpipe.c) ----
    tx_table,     \* txctx_entry_t *tx_table[MAX_TX]: [handle, txctx], txctx = 0 is NULL
    txctxs,       \* heap of txctx_t made by avpipe_init
    nInit,        \* tx_init calls made
    crashed,      \* the process died (NULL dereference)
    tpc, tloc,    \* position and locals of each thread's tx_run in progress
    tret,         \* the last return of tx_init / tx_run / tx_cancel
    released,     \* handles whose tx_run has returned and that no tx_init returned since
    \* ---- C I/O callbacks of one session (avpipe.c) ----
    inctx,        \* ioctx_t of the input: opaque (the I/O handle), read_bytes, read_pos
    outctx,       \* ioctx_t of an output: opaque (the slot id), written_bytes, write_pos
    cbret,        \* the last return of a callback
    \* ---- UDP input of the command-line transcoder (unnamed/part_000) ----
    udp_channel,  \* elv_channel_t of the input: the queued udp_packet_t, oldest first
    utid,         \* the thread running udp_thread_func: position, packet in hand, pkt_num
    uinctx,       \* ioctx_t of the UDP input: opaque, cur_packet, cur_pread, bytes handed out
    txthr,        \* the thread running tx_thread_func: position and last read return
    \* ---- live capture reader (live/ts_recorder.go, live/lhr.go) ----
    tsr,          \* TsReader: conn, ErrChannel, and the writer w it feeds
    rdr,          \* the goroutine running readUdp: position, bytesRead, returned error
    \* ---- the registry lock of the dispatcher ----
    gMutex,       \* sync.Mutex gMutex: "free" or the thread that holds it
    gAccess,      \* the last access to gHandlers / gHandleNum: thread, and whether it held gMutex
    \* ---- output slot addressing (src/avpipe_handler.go) ----
    outSlots,     \* the outputs one session has open, in the order opened: stream, seg, fd
    \* ---- backend handlers as the callbacks drive them (avpipe.c, part_004) ----
    outpts,       \* the PTS counters of an output: decoding_start_pts, input_last_pts_sent_encode
    cbcall,       \* the last call a callback made on a backend handler: op, whence, kind, value
    \* ---- URL-specific openers (part_004) ----
    urlreg,       \* gURLInputOpeners, gURLOutputOpeners, gInputOpener, gOutputOpener,
                  \*   and per caller the session it runs: the openers it registered and used
    \* ---- consecutive sessions on one live stream (part_001, part_002) ----
    rec,          \* the recording: sessions started, the session's parameters and input
                  \*   position, the PTS each session encoded, nextSkipOverPts
    \* ---- output files of the command-line transcoder (part_000) ----
    segfile,      \* the last out_opener call: the outctx it got, its return, the path opened
    \* ---- HLS playlist reader (live/lhr.go) ----
    hls           \* LiveHlsReader.Fill in progress: the playlist, its locals, what w received

regVars == <<gHandleNum, gFd, gHandlers, inputs, outTable, panicked>>
thrVars == <<pc, loc, ret>>
txVars  == <<tx_table, txctxs, nInit, crashed, tpc, tloc, tret, released>>
cbVars  == <<inctx, outctx, cbret>>
udpVars == <<udp_channel, utid, uinctx, txthr>>
liveVars == <<tsr, rdr>>
netVars == <<udpVars, liveVars>>
lockVars == <<gMutex, gAccess>>
ioVars == <<outpts, cbcall>>
toolVars == <<segfile, hls>>
sessVars == <<urlreg, rec, toolVars>>
extVars == <<lockVars, outSlots, ioVars, sessVars>>
vars    == <<regVars, thrVars, txVars, cbVars, netVars, extVars>>

NoAccess == [t |-> "none", locked |-> TRUE]
NoLoc == [h |-> 0, fd |-> 0, stale |-> FALSE]
NoRet == [rc |-> 0, stale |-> FALSE, backend |-> FALSE]

(***************************************************************************)
(* Registry helpers.                                                       *)
(***************************************************************************)
\* h := gHandlers[fd]: a missing key and a nil value both read as nil (0).
Lookup(handlers, fd) == IF fd \in DOMAIN handlers THEN handlers[fd] ELSE 0

\* gHandleNum++ ; fd := gHandleNum   (NewIOHandler)
NewHandleNumReuse(num, handlers) == Cardinality({k \in DOMAIN handlers : handlers[k] # 0}) + 1
NewHandleNum(num, handlers) == num + 1

\* gHandlers[fd] = h   (NewIOHandler)
Register(handlers, fd) == [handlers EXCEPT ![fd] = fd]

\* gHandlers[fd] = nil   (AVPipeCloseInput)
UnregisterForgotten(handlers, fd) == handlers
Unregister(handlers, fd) == [handlers EXCEPT ![fd] = 0]

\* gFd++ ; fd := gFd   (AVPipeOpenOutput; cur is gFd before the call). The
\* older dispatcher derived the slot from the segment and stream index.
NewFdFormula(cur, stream, seg) == (seg - 1) * 2 + stream
NewFd(cur, stream, seg) == cur + 1

\* h.outTable[fd]   (getOutTable): TRUE when the entry is not nil
hasOut(table, h, fd) == fd \in DOMAIN table[h]

\* h.outTable[fd] = outHandler   (putOutTable), outHandler freshly opened
\* (replaced: the put took the place of a handler that had not been closed;
\* late: Write was invoked on the handler after its Close)
putOutTable(table, h, fd) ==
    [table EXCEPT ![h] =
        (fd :> [opened   |-> (IF fd \in DOMAIN @ THEN @[fd].opened ELSE 0) + 1,
                closed   |-> FALSE,
                replaced |-> fd \in DOMAIN @ /\ (~@[fd].closed \/ @[fd].replaced),
                late     |-> FALSE]) @@ @]

\* Close has been invoked on the input registered under handle fd.
InputClosed(fd) == fd \in DOMAIN inputs /\ inputs[fd].closed

Idle(t) == ~panicked /\ pc[t] = "idle"
At(t, l) == ~panicked /\ pc[t] = l
\* Some thread is free to make a call that completes in one step.
CanCall == \E t \in Threads : Idle(t)

\* A call returns rc. stale: the handle it named had been closed before the
\* call began; backend: the call invoked a backend method.
Returns(rc, stale, backend) ==
    ret' = [rc |-> rc, stale |-> stale, backend |-> backend]

\* The last step of the multi-step call of thread t.
Return(t, rc) ==
    /\ pc' = [pc EXCEPT ![t] = "idle"]
    /\ loc' = [loc EXCEPT ![t] = NoLoc]
    /\ Returns(rc, loc[t].stale, TRUE)

(***************************************************************************)
(* NewIOHandler (part_004:326-364)                                         *)
(***************************************************************************)
\* gMutex.Lock(); gHandleNum++; fd := gHandleNum; gMutex.Unlock()
NewIOHandler_alloc(t) ==
    /\ Idle(t)
    /\ gHandleNum < MaxHandleNum
    /\ gHandleNum' = NewHandleNum(gHandleNum, gHandlers)
    /\ pc' = [pc EXCEPT ![t] = "new_open"]
    /\ loc' = [loc EXCEPT ![t] = [NoLoc EXCEPT !.fd = gHandleNum']]
    /\ UNCHANGED <<gFd, gHandlers, inputs, outTable, panicked, ret>>
    /\ UNCHANGED <<txVars, cbVars, netVars, extVars>>

\* input, err := urlInputOpener.Open(fd, filename); if err != nil { return -1 }
NewIOHandler_open(t) ==
    /\ At(t, "new_open")
    /\ \E ok \in BOOLEAN :
         IF ok
         THEN /\ inputs' = [inputs EXCEPT ![loc[t].fd] =
                              [opened |-> @.opened + 1, closed |-> FALSE]]
              /\ pc' = [pc EXCEPT ![t] = "new_reg"]
              /\ UNCHANGED <<loc, ret>>
         ELSE /\ inputs' = inputs
              /\ Return(t, -1)
    /\ UNCHANGED <<gHandleNum, gFd, gHandlers, outTable, panicked>>
    /\ UNCHANGED <<txVars, cbVars, netVars, extVars>>

\* h := &ioHandler{...}; gMutex.Lock(); gHandlers[fd] = h; return fd
NewIOHandler_reg(t) ==
    /\ At(t, "new_reg")
    /\ gHandlers' = Register(gHandlers, loc[t].fd)
    /\ outTable' = [outTable EXCEPT ![loc[t].fd] = <<>>]
    /\ Return(t, loc[t].fd)
    /\ UNCHANGED <<gHandleNum, gFd, inputs, panicked>>
    /\ UNCHANGED <<txVars, cbVars, netVars, extVars>>

(***************************************************************************)
(* AVPipeReadInput / AVPipeSeekInput / AVPipeStatInput (part_004:366-484)  *)
(***************************************************************************)
\* A dispatcher call on the input of handle fd: a miss returns -1, else the
\* backend method runs and its result is returned.
InputCall(fd, results) ==
    /\ CanCall
    /\ IF Lookup(gHandlers, fd) = 0
       THEN Returns(-1, InputClosed(fd), FALSE)
       ELSE \E r \in results : Returns(r, InputClosed(fd), TRUE)
    /\ UNCHANGED <<regVars, pc, loc>>
    /\ UNCHANGED <<txVars, cbVars, netVars, extVars>>

\* n, err := h.InReader(gobuf): n > 0 data, 0 end of stream, err -> -1
AVPipeReadInput ==
    \E fd \in HandleArgs : InputCall(fd, {1, 0, -1})

AVPipeSeekInput ==
    \E fd \in HandleArgs : InputCall(fd, {0, -1})

AVPipeStatInput ==
    \E fd \in HandleArgs : InputCall(fd, {0, -1})

(***************************************************************************)
(* AVPipeCloseInput (part_004:430-454): lookup, InCloser and the removal   *)
(* happen in one gMutex critical section.                                  *)
(***************************************************************************)
AVPipeCloseInput ==
    /\ CanCall
    /\ \E fd \in HandleArgs :
         IF Lookup(gHandlers, fd) = 0
         THEN /\ Returns(-1, InputClosed(fd), FALSE)
              /\ UNCHANGED <<inputs, gHandlers>>
         ELSE /\ inputs' = [inputs EXCEPT ![fd].closed = TRUE]       \* h.InCloser()
              /\ gHandlers' = Unregister(gHandlers, fd)
              /\ \E r \in {0, -1} : Returns(r, InputClosed(fd), TRUE)
    /\ UNCHANGED <<gHandleNum, gFd, outTable, panicked, pc, loc>>
    /\ UNCHANGED <<txVars, cbVars, netVars, extVars>>

(***************************************************************************)
(* AVPipeOpenOutput (part_004:486-555)                                     *)
(***************************************************************************)
\* gMutex.Lock(); h := gHandlers[handler]; gFd++; fd := gFd; gMutex.Unlock()
\* (loc.fd keeps the value of gFd the call found)
AVPipeOpenOutput_lookup(t) ==
    /\ Idle(t)
    /\ gFd < MaxFd
    /\ \E fd \in HandleArgs :
         IF Lookup(gHandlers, fd) = 0
         THEN /\ Returns(-1, InputClosed(fd), FALSE)
              /\ UNCHANGED <<gFd, pc, loc>>
         ELSE /\ gFd' = gFd + 1
              /\ pc' = [pc EXCEPT ![t] = "oo_open"]
              /\ loc' = [loc EXCEPT ![t] = [h |-> fd, fd |-> gFd, stale |-> InputClosed(fd)]]
              /\ ret' = ret
    /\ UNCHANGED <<gHandleNum, gHandlers, inputs, outTable, panicked>>
    /\ UNCHANGED <<txVars, cbVars, netVars, extVars>>

\* outHandler, err := gOutputOpener.Open(handler, fd, stream_index, seg_index,
\* out_type); if err != nil { return -1 }; h.putOutTable(fd, outHandler); return fd
AVPipeOpenOutput_open(t) ==
    /\ At(t, "oo_open")
    /\ \E ok \in BOOLEAN, s \in StreamIdx, g \in SegIdx :
         LET fd == NewFd(loc[t].fd, s, g) IN
         IF ok
         THEN /\ outTable' = putOutTable(outTable, loc[t].h, fd)
              /\ Return(t, fd)
         ELSE /\ outTable' = outTable
              /\ Return(t, -1)
    /\ UNCHANGED <<gHandleNum, gFd, gHandlers, inputs, panicked>>
    /\ UNCHANGED <<txVars, cbVars, netVars, extVars>>

(***************************************************************************)
(* AVPipeWriteOutput / AVPipeSeekOutput / AVPipeCloseOutput /              *)
(* AVPipeStatOutput (part_004:557-678)                                     *)
(***************************************************************************)
\* n, err := h.OutWriter(fd, gobuf); if err != nil { return -1 }; return n
AVPipeWriteOutputRet(n, err) == IF err THEN -1 ELSE n

\* A dispatcher call that looks the handle up and then works on an output
\* slot of the binding; Body(s) is what it does with slot s.
OutputCall(Body(_, _)) ==
    /\ CanCall
    /\ \E fd \in HandleArgs :
         IF Lookup(gHandlers, fd) = 0
         THEN /\ Returns(-1, InputClosed(fd), FALSE)
              /\ UNCHANGED <<outTable, panicked>>
         ELSE \E s \in SlotArgs : Body(fd, s)
    /\ UNCHANGED <<gHandleNum, gFd, gHandlers, inputs, pc, loc>>
    /\ UNCHANGED <<txVars, cbVars, netVars, extVars>>

\* if h.getOutTable(fd) == nil { panic(msg) }
Panic ==
    /\ panicked' = TRUE
    /\ UNCHANGED <<outTable, ret>>

\* The buffer holds 2 bytes: the backend takes n of them or fails.
AVPipeWriteOutput ==
    LET Body(h, s) ==
          IF ~hasOut(outTable, h, s)
          THEN Panic
          ELSE /\ outTable' = [outTable EXCEPT ![h][s].late = @ \/ outTable[h][s].closed]
               /\ UNCHANGED panicked
               /\ \E r \in {AVPipeWriteOutputRet(n, err) : n \in 0..2, err \in BOOLEAN} :
                    Returns(r, InputClosed(h), TRUE)
    IN OutputCall(Body)

\* OutSeeker calls Seek on h.outTable[fd] without a nil check.
AVPipeSeekOutput ==
    LET Body(h, s) ==
          IF ~hasOut(outTable, h, s)
          THEN Panic
          ELSE /\ UNCHANGED <<outTable, panicked>>
               /\ \E r \in {0, -1} : Returns(r, InputClosed(h), TRUE)
    IN OutputCall(Body)

\* OutCloser calls Close on h.outTable[fd]; the table entry stays.
AVPipeCloseOutput ==
    LET Body(h, s) ==
          IF ~hasOut(outTable, h, s)
          THEN Panic
          ELSE /\ outTable' = [outTable EXCEPT ![h][s].closed = TRUE]
               /\ UNCHANGED panicked
               /\ \E r \in {0, -1} : Returns(r, InputClosed(h), TRUE)
    IN OutputCall(Body)

\* OutStat returns an error for a nil handler, else the handler's Stat result.
AVPipeStatOutput ==
    LET Body(h, s) ==
          /\ UNCHANGED <<outTable, panicked>>
          /\ IF ~hasOut(outTable, h, s)
             THEN Returns(-1, InputClosed(h), FALSE)
             ELSE \E r \in {0, -1} : Returns(r, InputClosed(h), TRUE)
    IN OutputCall(Body)

(***************************************************************************)
(* The C session table (src/avpipe.c)                                      *)
(***************************************************************************)
\* Slots of tx_table. avpipe.c:48 has MAX_TX 128; the model keeps the table
\* logic and scales the size.
MAX_TX == 2
\* Packets of an input (the engine loop ends at end of input).
MaxFrames == 1
\* tx_init calls explored: enough to fill the table and overflow it.
MaxInits == MAX_TX + 1

Runners    == {"t1", "t2"}          \* threads that call tx_run
OneRunner  == {"t1"}                \* SpecTx: the calls of one of them
TxSlots    == 0..(MAX_TX - 1)
RandVals   == {0, 7}                \* values rand() returns
HandleVals == RandVals \cup {-1}    \* session handles a caller may name
IoHandles  == 0..MaxInits           \* I/O handles of the registry

NULL   == [handle |-> 0, txctx |-> 0]
\* locals of tx_run: handle, txctx, rc, the packets the engine has processed;
\* again: the handle named a session whose tx_run had already returned;
\* cancel: tx_cancel set the flags of txctx while this tx_run was in the engine
NoTLoc == [handle |-> 0, ctx |-> 0, rc |-> 0, frames |-> 0, again |-> FALSE,
           cancel |-> FALSE]
NoTRet == [op |-> "none", arg |-> 0, rc |-> 0, inh |-> 0, ctx |-> 0]

\* C integer conversions. A uint32_t is kept as its two 16-bit halves.
\* int32_t -> uint32_t (modulo 2^32)
ToU32(x) == [hi |-> (x \div 65536) % 65536, lo |-> x % 65536]
\* uint32_t -> int32_t (two's complement)
ToI32(u) == IF u.hi >= 32768 THEN (u.hi - 65536) * 65536 + u.lo
                             ELSE u.hi * 65536 + u.lo
\* u < 0 for a uint32_t u
U32Negative(u) == u.hi < 0

\* for (i = 0; i < MAX_TX; i++) if (tx_table[i] == NULL): the first free
\* slot, -1 when the loop finds none
FirstFree(table) ==
    IF \E i \in DOMAIN table : table[i].txctx = 0
    THEN CHOOSE i \in DOMAIN table :
            /\ table[i].txctx = 0
            /\ \A k \in DOMAIN table : table[k].txctx = 0 => i <= k
    ELSE -1

\* tx_table_put(txctx), r the value of rand(): the table afterwards, the
\* index and handle written into the txctx, and the value returned.
tx_table_put_evict(table, c, r) ==
    LET f == FirstFree(table)
        i == IF f = -1 THEN MAX_TX - 1 ELSE f IN
    [table  |-> [table EXCEPT ![i] = [handle |-> r, txctx |-> c]],
     index  |-> i, handle |-> r, rc |-> r]
tx_table_put(table, c, r) ==
    LET i == FirstFree(table)
        h == IF r < 0 THEN (-1) * r ELSE r IN
    IF i = -1
    THEN [table |-> table, index |-> -1, handle |-> 0, rc |-> -1]
    ELSE [table  |-> [table EXCEPT ![i] = [handle |-> h, txctx |-> c]],
          index  |-> i, handle |-> h, rc |-> h]

\* tx_table_find(handle): index of the first entry with the handle, -1 for NULL
tx_table_find(table, handle) ==
    IF \E i \in DOMAIN table : table[i].txctx # 0 /\ table[i].handle = handle
    THEN CHOOSE i \in DOMAIN table :
            /\ table[i].txctx # 0 /\ table[i].handle = handle
            /\ \A k \in DOMAIN table :
                 (table[k].txctx # 0 /\ table[k].handle = handle) => i <= k
    ELSE -1

\* tx_table_free(handle): the first entry with the handle is removed when its
\* txctx points back at the slot
tx_table_free(table, ctxs, handle) ==
    LET i == tx_table_find(table, handle) IN
    IF i # -1 /\ ctxs[table[i].txctx].index = i
    THEN [table EXCEPT ![i] = NULL]
    ELSE table

\* tx_table_cancel(handle): the heap afterwards and the value returned
tx_table_cancel_toggle(table, ctxs, handle) ==
    LET i == tx_table_find(table, handle) IN
    IF i = -1 THEN [ctxs |-> ctxs, rc |-> 0]
    ELSE [ctxs |-> [ctxs EXCEPT ![table[i].txctx].dcancelled = 1 - @,
                                ![table[i].txctx].ecancelled = 1 - @], rc |-> 0]
tx_table_cancel_every(table, ctxs, handle) ==
    [ctxs |-> [c \in DOMAIN ctxs |->
                 IF \E i \in TxSlots : table[i].txctx = c
                 THEN [ctxs[c] EXCEPT !.dcancelled = 1, !.ecancelled = 1]
                 ELSE ctxs[c]],
     rc |-> 0]
tx_table_cancel(table, ctxs, handle) ==
    LET i == tx_table_find(table, handle) IN
    IF i = -1 THEN [ctxs |-> ctxs, rc |-> 0]
    ELSE LET c == table[i].txctx IN
         IF ctxs[c].index = i
         THEN [ctxs |-> [ctxs EXCEPT ![c].dcancelled = 1, ![c].ecancelled = 1],
               rc |-> 0]
         ELSE [ctxs |-> ctxs, rc |-> -1]

\* Every slot of tx_table holds a record.
TableFull == \A i \in TxSlots : tx_table[i].txctx # 0

TxIdle(t)  == ~crashed /\ tpc[t] = "idle"
TxAt(t, l) == ~crashed /\ tpc[t] = l
\* tx_init and tx_cancel complete in one step, on any other thread.
TxCanCall  == ~crashed

TxReturns(op, arg, rc, inh, ctx) ==
    tret' = [op |-> op, arg |-> arg, rc |-> rc, inh |-> inh, ctx |-> ctx]

(***************************************************************************)
(* tx_init (avpipe.c:507-563) with in_opener (64-106), in_closer (108-123) *)
(* and avpipe_init / avpipe_fini (part_002:706-759).                       *)
(***************************************************************************)
\* in_opener: h = NewIOHandler(url, &size); if (h <= 0) return -1;
\* *inctx->opaque = h. The whole NewIOHandler call runs inside the step; the
\* result is the registry afterwards and the handle stored in inctx->opaque
\* (0 from calloc when the open failed).
in_opener(ok) ==
    LET fd == NewHandleNum(gHandleNum, gHandlers) IN
    IF ok
    THEN [num |-> fd, handlers |-> Register(gHandlers, fd),
          inputs |-> [inputs EXCEPT ![fd] = [opened |-> @.opened + 1, closed |-> FALSE]],
          opaque |-> fd, rc |-> 0]
    ELSE [num |-> fd, handlers |-> gHandlers, inputs |-> inputs, opaque |-> 0, rc |-> -1]

\* in_closer: AVPipeCloseInput(*inctx->opaque) on the registry (handlers, ins)
in_closer(handlers, ins, h) ==
    IF Lookup(handlers, h) = 0
    THEN [handlers |-> handlers, inputs |-> ins]
    ELSE [handlers |-> Unregister(handlers, h),
          inputs |-> [ins EXCEPT ![h].closed = TRUE]]

\* avpipe_init: calloc of a txctx_t whose inctx holds I/O handle h
NewTxctx(h) ==
    [index |-> -1, handle |-> 0, dcancelled |-> 0, ecancelled |-> 0,
     inh |-> h, freed |-> FALSE]

\* free(*txctx): the memory of a released txctx holds nothing of the session
FreedTxctx ==
    [index |-> -1, handle |-> 0, dcancelled |-> 0, ecancelled |-> 0,
     inh |-> 0, freed |-> TRUE]

\* end_tx_init: in_closer(inctx); avpipe_fini(&txctx) with txctx == NULL, which
\* reads through the NULL pointer: the process dies or the call gets through
\* and tx_init returns -1.
end_tx_init(o, crash) ==
    LET cl == in_closer(o.handlers, o.inputs, o.opaque) IN
    /\ gHandleNum' = o.num
    /\ gHandlers' = cl.handlers
    /\ inputs' = cl.inputs
    /\ UNCHANGED <<tx_table, txctxs, released, tpc, tloc>>
    /\ IF crash
       THEN crashed' = TRUE /\ tret' = tret
       ELSE crashed' = crashed /\ TxReturns("tx_init", 0, -1, o.opaque, 0)

tx_init ==
    /\ TxCanCall
    /\ nInit < MaxInits
    /\ nInit' = nInit + 1
    /\ \E filename \in {"", "url"}, openOk, initOk, crash \in BOOLEAN, r \in RandVals :
         IF filename = ""
         THEN /\ TxReturns("tx_init", 0, -1, 0, 0)
              /\ UNCHANGED <<gHandleNum, gHandlers, inputs, tx_table, txctxs,
                             released, crashed, tpc, tloc>>
         ELSE LET o == in_opener(openOk) IN
              IF o.rc < 0 \/ ~initOk
              THEN end_tx_init(o, crash)
              ELSE LET c      == Len(txctxs) + 1
                       put    == tx_table_put(tx_table, c, r)
                       handle == ToU32(put.rc)     \* uint32_t handle
                   IN
                   IF U32Negative(handle)
                   THEN end_tx_init(o, crash)
                   ELSE /\ gHandleNum' = o.num
                        /\ gHandlers' = o.handlers
                        /\ inputs' = o.inputs
                        /\ tx_table' = put.table
                        /\ txctxs' = Append(txctxs,
                              [NewTxctx(o.opaque) EXCEPT !.index = put.index,
                                                         !.handle = put.handle])
                        /\ released' = IF put.index = -1 THEN released
                                       ELSE released \ {put.handle}
                        /\ TxReturns("tx_init", 0, ToI32(handle), o.opaque, c)
                        /\ UNCHANGED <<crashed, tpc, tloc>>
    /\ UNCHANGED <<gFd, outTable, panicked, thrVars, cbVars, netVars, extVars>>

(***************************************************************************)
(* tx_cancel (avpipe.c:595-600)                                            *)
(***************************************************************************)
tx_cancel ==
    /\ TxCanCall
    /\ \E handle \in HandleVals :
         LET res == tx_table_cancel(tx_table, txctxs, handle)
             i   == tx_table_find(tx_table, handle) IN
         /\ txctxs' = res.ctxs
         /\ tloc' = [t \in Runners |->
                       IF /\ tpc[t] = "avpipe_tx" /\ i # -1
                          /\ tloc[t].ctx = tx_table[i].txctx
                          /\ res.ctxs[tloc[t].ctx].dcancelled = 1
                       THEN [tloc[t] EXCEPT !.cancel = TRUE]
                       ELSE tloc[t]]
         \* a record left pointing at a freed context makes the test of
         \* txctx->index (avpipe.c:463) a read of freed memory: either
         \* branch may be taken; what is stored in the freed block is lost
         /\ \E rc \in (IF i # -1 /\ txctxs[tx_table[i].txctx].freed
                        THEN {0, -1} ELSE {res.rc}) :
              TxReturns("tx_cancel", handle, rc, 0,
                        IF i = -1 THEN 0 ELSE tx_table[i].txctx)
    /\ UNCHANGED <<regVars, thrVars, cbVars, netVars, extVars, tx_table, nInit, released, crashed, tpc>>

(***************************************************************************)
(* tx_run (avpipe.c:565-593) with the engine loop avpipe_tx                *)
(* (part_002:569-704).                                                     *)
(***************************************************************************)
\* txe = tx_table_find(handle); if (!txe) return -1; txctx = txe->txctx
tx_run_find(t) ==
    /\ TxIdle(t)
    /\ \E handle \in HandleVals :
         LET i == tx_table_find(tx_table, handle) IN
         IF i = -1
         THEN /\ TxReturns("tx_run", handle, -1, 0, 0)
              /\ UNCHANGED <<tpc, tloc>>
         ELSE /\ tpc' = [tpc EXCEPT ![t] = "avpipe_tx"]
              /\ tloc' = [tloc EXCEPT ![t] = [NoTLoc EXCEPT !.handle = handle,
                                                 !.ctx = tx_table[i].txctx,
                                                 !.again = handle \in released]]
              /\ tret' = tret
    /\ UNCHANGED <<regVars, thrVars, cbVars, netVars, extVars, tx_table, txctxs, nInit, released, crashed>>

\* init_filters, avformat_write_header, av_seek_frame or the audio copy
\* fails: return -1
avpipe_tx_fail(t) ==
    /\ TxAt(t, "avpipe_tx")
    /\ tpc' = [tpc EXCEPT ![t] = "end_tx"]
    /\ tloc' = [tloc EXCEPT ![t].rc = -1]
    /\ UNCHANGED <<regVars, thrVars, cbVars, netVars, extVars, tx_table, txctxs, nInit, released, crashed, tret>>

\* while (av_read_frame(...) >= 0) { decode_packet(...) }: one packet is read
\* and processed and the loop goes round. Nothing in the loop reads
\* decoder_ctx.cancelled or encoder_ctx.cancelled.
avpipe_tx_frame(t) ==
    /\ TxAt(t, "avpipe_tx")
    /\ tloc[t].frames < MaxFrames
    /\ tloc' = [tloc EXCEPT ![t].frames = @ + 1]
    /\ UNCHANGED <<regVars, thrVars, cbVars, netVars, extVars, tx_table, txctxs, nInit, released, crashed, tret, tpc>>

\* av_read_frame < 0, the duration is over or decode_packet fails: the loop
\* ends, the encoder is flushed, return 0
avpipe_tx_end(t) ==
    /\ TxAt(t, "avpipe_tx")
    /\ tpc' = [tpc EXCEPT ![t] = "end_tx"]
    /\ tloc' = [tloc EXCEPT ![t].rc = 0]
    /\ UNCHANGED <<regVars, thrVars, cbVars, netVars, extVars, tx_table, txctxs, nInit, released, crashed, tret>>

\* end_tx: txctx->in_handlers->avpipe_closer(txctx->inctx)
tx_run_close(t) ==
    /\ TxAt(t, "end_tx")
    /\ LET cl == in_closer(gHandlers, inputs, txctxs[tloc[t].ctx].inh) IN
         /\ gHandlers' = cl.handlers
         /\ inputs' = cl.inputs
    /\ tpc' = [tpc EXCEPT ![t] = "tx_table_free"]
    /\ UNCHANGED <<gHandleNum, gFd, outTable, panicked, thrVars, cbVars, netVars, extVars,
                   tx_table, txctxs, nInit, released, crashed, tloc, tret>>

\* tx_table_free(handle)
tx_run_free(t) ==
    /\ TxAt(t, "tx_table_free")
    /\ tx_table' = tx_table_free(tx_table, txctxs, tloc[t].handle)
    /\ tpc' = [tpc EXCEPT ![t] = "avpipe_fini"]
    /\ UNCHANGED <<regVars, thrVars, cbVars, netVars, extVars, txctxs, nInit, released, crashed, tloc, tret>>

\* avpipe_fini(&txctx): the codec contexts and the txctx are freed; return rc
tx_run_fini(t) ==
    /\ TxAt(t, "avpipe_fini")
    /\ txctxs' = [txctxs EXCEPT ![tloc[t].ctx] = FreedTxctx]
    /\ released' = released \cup {tloc[t].handle}
    /\ tpc' = [tpc EXCEPT ![t] = "idle"]
    /\ tloc' = [tloc EXCEPT ![t] = NoTLoc]
    /\ TxReturns("tx_run", tloc[t].handle, tloc[t].rc, 0, tloc[t].ctx)
    /\ UNCHANGED <<regVars, thrVars, cbVars, netVars, extVars, tx_table, nInit, crashed>>

TableInit ==
    /\ tx_table = [i \in TxSlots |-> NULL]
    /\ txctxs = <<>>
    /\ nInit = 0
    /\ released = {}
    /\ crashed = FALSE
    /\ tpc = [t \in Runners |-> "idle"]
    /\ tloc = [t \in Runners |-> NoTLoc]
    /\ tret = NoTRet

(***************************************************************************)
(* The I/O callbacks the engine calls for one session (src/avpipe.c). Each *)
(* callback runs its dispatcher call inside the step.                      *)
(***************************************************************************)
\* Bytes a session reads or writes in the runs explored.
MaxBytes == 4
\* Capacity given to elv_channel_init for the UDP input.
MAX_UDP_CHANNEL == 1
\* Longest datagram recvfrom returns.
MAX_UDP_PKT_LEN == 2
\* Datagrams the socket receives in the runs explored.
MaxDatagrams == 3
BufSizes == {1, 2}                  \* buf_size values the engine passes

NoCtx   == [opaque |-> 0, bytes |-> 0, pos |-> 0]
NoCbRet == [op |-> "none", rc |-> 0, size |-> 0, n |-> 0, err |-> FALSE]

CbReturns(op, rc, size, n, err) ==
    cbret' = [op |-> op, rc |-> rc, size |-> size, n |-> n, err |-> err]

\* in_opener (avpipe.c:64-106)
cb_in_opener ==
    /\ ~panicked
    /\ inctx.opaque = 0
    /\ gHandleNum < MaxHandleNum
    /\ \E ok \in BOOLEAN :
         LET o == in_opener(ok) IN
         /\ gHandleNum' = o.num
         /\ gHandlers' = o.handlers
         /\ inputs' = o.inputs
         /\ outTable' = IF ok THEN [outTable EXCEPT ![o.opaque] = <<>>] ELSE outTable
         /\ inctx' = [inctx EXCEPT !.opaque = o.opaque]
         /\ CbReturns("in_opener", o.rc, 0, 0, ~ok)
    /\ UNCHANGED <<gFd, panicked, thrVars, txVars, netVars, extVars, outctx>>

\* in_closer (avpipe.c:108-123)
cb_in_closer ==
    /\ ~panicked
    /\ inctx.opaque # 0
    /\ LET cl == in_closer(gHandlers, inputs, inctx.opaque) IN
         /\ gHandlers' = cl.handlers
         /\ inputs' = cl.inputs
    /\ CbReturns("in_closer", 0, 0, 0, FALSE)
    /\ UNCHANGED <<gHandleNum, gFd, outTable, panicked, thrVars, txVars, netVars, extVars, inctx, outctx>>

\* in_read_packet (avpipe.c:125-176): r = AVPipeReadInput(fd, buf, buf_size);
\* if (r > 0) { read_bytes += r; read_pos += r; } return r > 0 ? r : -1
in_read_packet ==
    /\ ~panicked
    /\ inctx.opaque # 0
    /\ \E buf_size \in BufSizes, n \in 0..2, err \in BOOLEAN :
         LET miss == Lookup(gHandlers, inctx.opaque) = 0
             r    == IF miss \/ err THEN -1 ELSE n IN
         /\ n <= buf_size
         /\ inctx.bytes + buf_size <= MaxBytes
         /\ inctx' = IF r > 0 THEN [inctx EXCEPT !.bytes = @ + r, !.pos = @ + r]
                              ELSE inctx
         /\ CbReturns("in_read_packet", IF r > 0 THEN r ELSE -1, buf_size, n, miss \/ err)
    /\ UNCHANGED <<regVars, thrVars, txVars, netVars, extVars, outctx>>

\* out_opener (avpipe.c:234-261): fd = AVPipeOpenOutput(h, stream_index,
\* seg_index, type); if (fd < 0) return -1; *outctx->opaque = fd
out_opener ==
    /\ ~panicked
    /\ inctx.opaque # 0 /\ outctx.opaque = 0
    /\ gFd < MaxFd
    /\ \E ok \in BOOLEAN, st \in StreamIdx, g \in SegIdx :
         IF Lookup(gHandlers, inctx.opaque) = 0
         THEN /\ CbReturns("out_opener", -1, 0, 0, TRUE)
              /\ UNCHANGED <<gFd, outTable, outctx>>
         ELSE LET fd == NewFd(gFd, st, g) IN
              /\ gFd' = gFd + 1
              /\ outTable' = IF ok THEN putOutTable(outTable, inctx.opaque, fd) ELSE outTable
              /\ outctx' = IF ok THEN [outctx EXCEPT !.opaque = fd] ELSE outctx
              /\ CbReturns("out_opener", IF ok THEN 0 ELSE -1, 0, 0, ~ok)
    /\ UNCHANGED <<gHandleNum, gHandlers, inputs, panicked, thrVars, txVars, netVars, extVars, inctx>>

\* out_write_packet (avpipe.c:273-294): bwritten = AVPipeWriteOutput(h, fd,
\* buf, buf_size); if (bwritten >= 0) { written_bytes += bwritten; write_pos
\* += bwritten; } return buf_size. The backend Write takes n of the buf_size
\* bytes or fails (err).
out_write_packet ==
    /\ ~panicked
    /\ outctx.opaque # 0
    /\ \E buf_size \in BufSizes, n \in 0..2, err \in BOOLEAN :
         LET miss     == Lookup(gHandlers, inctx.opaque) = 0
             bwritten == IF miss THEN -1 ELSE AVPipeWriteOutputRet(n, err) IN
         /\ n <= buf_size
         /\ outctx.bytes + buf_size <= MaxBytes
         /\ IF ~miss /\ ~hasOut(outTable, inctx.opaque, outctx.opaque)
            THEN /\ panicked' = TRUE
                 /\ UNCHANGED <<outctx, cbret>>
            ELSE /\ panicked' = panicked
                 /\ outctx' = IF bwritten >= 0
                              THEN [outctx EXCEPT !.bytes = @ + bwritten, !.pos = @ + bwritten]
                              ELSE outctx
                 /\ CbReturns("out_write_packet", buf_size, buf_size,
                              IF miss \/ err THEN 0 ELSE n, miss \/ err)
    /\ UNCHANGED <<gHandleNum, gFd, gHandlers, inputs, outTable, thrVars, txVars, netVars, extVars, inctx>>

CbInit ==
    /\ inctx = NoCtx
    /\ outctx = NoCtx
    /\ cbret = NoCbRet

(***************************************************************************)
(* Spec: the dispatcher under concurrent callers.                          *)
(***************************************************************************)
RegInit ==
    /\ gHandleNum = 0
    /\ gFd = 0
    /\ gHandlers = [k \in HandleArgs |-> 0]
    /\ inputs = [k \in HandleArgs |-> [opened |-> 0, closed |-> FALSE]]
    /\ outTable = [k \in HandleArgs |-> <<>>]
    /\ panicked = FALSE

ThrInit ==
    /\ pc = [t \in Threads |-> "idle"]
    /\ loc = [t \in Threads |-> NoLoc]
    /\ ret = NoRet

(***************************************************************************)
(* SpecUdp: the UDP input of the command-line transcoder (unnamed/part_000).*)
(* udp_thread_func reads datagrams into the input's elv_channel_t, and the  *)
(* engine, called from tx_thread_func, reads the channel back through       *)
(* in_read_packet. A byte is named by its position on the wire, so the k-th *)
(* byte received by the socket is k.                                        *)
(***************************************************************************)
NoPkt == [buf |-> <<>>, len |-> -1, num |-> 0]

\* A udp_packet_t: recvfrom filled buf with the len bytes that follow the
\* first bytes of the wire; num is pkt_num.
UdpPacket(first, len, num) ==
    [buf |-> [i \in 1..len |-> first + i], len |-> len, num |-> num]

\* What recvfrom returns: the length of the datagram, 0 for an empty one, -1
\* when it fails. udp_thread_func stores it in udp_packet->len unchecked.
DatagramLens == -1..MAX_UDP_PKT_LEN

\* elv_channel_send blocks while the channel holds its capacity.
elv_channel_can_send_always(ch) == TRUE

elv_channel_can_send(ch) == Len(ch) < MAX_UDP_CHANNEL

elv_channel_send(ch, pkt) == Append(ch, pkt)

\* elv_channel_timed_receive: the oldest item, or ETIMEDOUT on an empty channel.
elv_channel_timed_receive(ch) ==
    IF ch = <<>> THEN [rc |-> "ETIMEDOUT", pkt |-> NoPkt, ch |-> ch]
    ELSE [rc |-> "ok", pkt |-> Head(ch), ch |-> Tail(ch)]

Min(a, b) == IF a > b THEN b ELSE a

\* buf[from+1 .. from+r] of a packet: what memcpy puts in the caller's buffer.
PktBytes(pkt, from, r) == [i \in 1..r |-> pkt.buf[from + i]]

\* in_read_packet never keeps the packet it has just received.
cur_packet_dropped(pkt, r) == NoPkt

\* in_read_packet keeps every packet it has just received.
cur_packet_kept_always(pkt, r) == pkt

\* c->cur_packet after the first read of a packet received from the channel.
cur_packet_kept(pkt, r) == IF r < pkt.len THEN pkt ELSE NoPkt

NoUtid == [pc |-> "none", pkt |-> NoPkt, pkt_num |-> 0, wire |-> 0]
\* freed: the calls of free() on a udp_packet_t so far
NoUinctx == [opaque |-> FALSE, cur_packet |-> NoPkt, cur_pread |-> 0,
             bytes |-> <<>>, taken |-> 0, freed |-> 0]
NoTxthr == [pc |-> "start", rc |-> 0, op |-> "none", drained |-> FALSE]

\* tx_thread_func: in_opener on a udp url, then avpipe_init.
udp_in_opener ==
    /\ txthr.pc = "start"
    /\ \E o \in {"open_failed", "init_failed", "ok"} :
          IF o = "open_failed"
          THEN /\ txthr' = [txthr EXCEPT !.pc = "skipped", !.op = "in_opener", !.rc = -1]
               /\ UNCHANGED <<udp_channel, utid, uinctx>>
          ELSE /\ udp_channel' = <<>>
               /\ uinctx' = [NoUinctx EXCEPT !.opaque = TRUE]
               /\ utid' = [NoUtid EXCEPT !.pc = "select"]
               /\ txthr' = [txthr EXCEPT !.pc = IF o = "ok" THEN "tx" ELSE "skipped",
                                         !.op = "in_opener", !.rc = 0]
    /\ UNCHANGED <<regVars, thrVars, txVars, cbVars, extVars, liveVars>>

\* udp_thread_func: readable_timeout found a datagram; recvfrom, then
\* elv_channel_send, which returns at once when the channel has room.
udp_thread_recv ==
    /\ utid.pc = "select"
    /\ utid.pkt_num < MaxDatagrams
    /\ \E len \in DatagramLens :
          LET pkt == UdpPacket(utid.wire, len, utid.pkt_num + 1) IN
          IF elv_channel_can_send(udp_channel)
          THEN /\ udp_channel' = elv_channel_send(udp_channel, pkt)
               /\ utid' = [utid EXCEPT !.pkt_num = @ + 1, !.wire = @ + Len(pkt.buf)]
          ELSE /\ utid' = [utid EXCEPT !.pc = "send", !.pkt = pkt,
                                      !.pkt_num = @ + 1, !.wire = @ + Len(pkt.buf)]
               /\ UNCHANGED udp_channel
    /\ UNCHANGED <<regVars, thrVars, txVars, cbVars, extVars, liveVars, uinctx, txthr>>

\* udp_thread_func blocked in elv_channel_send: the channel got room.
udp_thread_send ==
    /\ utid.pc = "send"
    /\ elv_channel_can_send(udp_channel)
    /\ udp_channel' = elv_channel_send(udp_channel, utid.pkt)
    /\ utid' = [utid EXCEPT !.pc = "select", !.pkt = NoPkt]
    /\ UNCHANGED <<regVars, thrVars, txVars, cbVars, extVars, liveVars, uinctx, txthr>>

\* udp_thread_func: readable_timeout returned <= 0; the loop breaks and the
\* thread returns. The channel is left as it is.
udp_thread_timeout ==
    /\ utid.pc = "select"
    /\ utid' = [utid EXCEPT !.pc = "exited"]
    /\ UNCHANGED <<regVars, thrVars, txVars, cbVars, extVars, liveVars, udp_channel, uinctx, txthr>>

\* in_read_packet on the UDP input, called by the engine inside avpipe_tx.
udp_in_read_packet ==
    /\ txthr.pc = "tx"
    /\ \E buf_size \in BufSizes :
          LET c == uinctx
              drained == utid.pc = "exited" /\ udp_channel = <<>> /\ c.cur_packet = NoPkt
          IN
          IF c.cur_packet # NoPkt
          THEN LET r == Min(buf_size, c.cur_packet.len - c.cur_pread)
                   done == c.cur_pread + r = c.cur_packet.len
               IN /\ uinctx' = [c EXCEPT
                        !.bytes = @ \o PktBytes(c.cur_packet, c.cur_pread, r),
                        !.cur_pread = IF done THEN 0 ELSE @ + r,
                        !.cur_packet = IF done THEN NoPkt ELSE @,
                        !.freed = IF done THEN @ + 1 ELSE @]
                  /\ txthr' = [txthr EXCEPT !.op = "in_read_packet", !.rc = r,
                                            !.drained = drained]
                  /\ UNCHANGED udp_channel
          ELSE LET rcv == elv_channel_timed_receive(udp_channel) IN
               IF rcv.rc = "ETIMEDOUT"
               THEN /\ txthr' = [txthr EXCEPT !.op = "in_read_packet", !.rc = -1,
                                              !.drained = drained]
                    /\ UNCHANGED <<udp_channel, uinctx>>
               ELSE LET r == Min(buf_size, rcv.pkt.len)
                        keep == cur_packet_kept(rcv.pkt, r)
                    IN \/ /\ udp_channel' = rcv.ch
                          /\ uinctx' = [c EXCEPT
                                !.bytes = @ \o PktBytes(rcv.pkt, 0, r),
                                !.cur_packet = keep,
                                !.cur_pread = IF keep # NoPkt THEN r ELSE @,
                                !.taken = @ + 1,
                                !.freed = IF keep # NoPkt THEN @ ELSE @ + 1]
                          /\ txthr' = [txthr EXCEPT !.op = "in_read_packet", !.rc = r,
                                                    !.drained = drained]
                       \* memcpy(buf, udp_packet->buf, r) with r < 0 copies
                       \* (size_t)r bytes: the call above gets through with
                       \* nothing usable copied, or the process is killed
                       \/ /\ r < 0
                          /\ udp_channel' = rcv.ch
                          /\ uinctx' = [c EXCEPT !.taken = @ + 1]
                          /\ txthr' = [txthr EXCEPT !.pc = "killed",
                                                    !.op = "in_read_packet", !.rc = r,
                                                    !.drained = drained]
    /\ UNCHANGED <<regVars, thrVars, txVars, cbVars, extVars, liveVars, utid>>

\* avpipe_tx returns to tx_thread_func: a negative return skips the rest of
\* the iteration, 0 goes on to pthread_join.
udp_avpipe_tx_return ==
    /\ txthr.pc = "tx"
    /\ \E rc \in {0, -1} :
          txthr' = [txthr EXCEPT !.pc = IF rc < 0 THEN "skipped" ELSE "join",
                                 !.op = "avpipe_tx", !.rc = rc]
    /\ UNCHANGED <<regVars, thrVars, txVars, cbVars, extVars, liveVars, udp_channel, utid, uinctx>>

\* tx_thread_func: pthread_join(inctx->utid) returns once the thread exited.
udp_thread_join ==
    /\ txthr.pc = "join"
    /\ utid.pc = "exited"
    /\ txthr' = [txthr EXCEPT !.pc = "close", !.op = "pthread_join", !.rc = 0]
    /\ UNCHANGED <<regVars, thrVars, txVars, cbVars, extVars, liveVars, udp_channel, utid, uinctx>>

\* in_closer of the UDP input, then avpipe_fini: opaque freed, socket closed.
udp_in_closer ==
    /\ txthr.pc = "close"
    /\ uinctx' = [uinctx EXCEPT !.opaque = FALSE]
    /\ txthr' = [txthr EXCEPT !.pc = "closed", !.op = "in_closer", !.rc = 0]
    /\ UNCHANGED <<regVars, thrVars, txVars, cbVars, extVars, liveVars, udp_channel, utid>>

RECURSIVE ChannelBytes(_)
\* The payloads queued in the channel, oldest first.
ChannelBytes(ch) ==
    IF ch = <<>> THEN <<>> ELSE Head(ch).buf \o ChannelBytes(Tail(ch))

\* The first n bytes the socket received.
Wire(n) == [i \in 1..n |-> i]

\* The bytes of c->cur_packet that no read has returned yet.
CurPacketRest(c) == SubSeq(c.cur_packet.buf, c.cur_pread + 1, Len(c.cur_packet.buf))

UdpInit ==
    /\ udp_channel = <<>>
    /\ utid = NoUtid
    /\ uinctx = NoUinctx
    /\ txthr = NoTxthr

NextUdp ==
    \/ udp_in_opener
    \/ udp_thread_recv
    \/ udp_thread_send
    \/ udp_thread_timeout
    \/ udp_in_read_packet
    \/ udp_avpipe_tx_return
    \/ udp_thread_join
    \/ udp_in_closer

(***************************************************************************)
(* SpecLive: the live capture reader. serveOneConnection starts a goroutine *)
(* that runs readUdp; live/ts_recorder.go and live/lhr.go each hold one     *)
(* version of the two functions, and rdr.file says which one runs. The      *)
(* writer w is the RWBuffer the reader feeds.                               *)
(***************************************************************************)
\* rBytes, rEof: what the consumer of the RWBuffer has read of it so far
NoTsr == [conn |-> "nil", sock |-> "none", ErrChannel |-> <<>>,
          wClosed |-> 0, wBytes |-> 0, closeReturned |-> FALSE, activeAtClose |-> FALSE,
          rBytes |-> 0, rEof |-> FALSE]
NoRdr == [file |-> "none", pc |-> "none", bytesRead |-> 0, cause |-> "none",
          err |-> "nil", waited |-> FALSE]

ReadLens == 0..MAX_UDP_PKT_LEN               \* n of conn.ReadFrom
ReadErrors == {"EIO"}                       \* socket read errors other than a timeout
WriteResults == {"ok", "short", "err"}      \* w.Write: bw = n, bw # n with a nil err, err

\* The goroutine of serveOneConnection has not finished.
ReaderActive == rdr.pc \in {"loop", "returned"}

\* readUdp returns and leaves the writer as it is.
readUdp_return_writer_open(cause, err, n) ==
    /\ rdr' = [rdr EXCEPT !.pc = "returned", !.cause = cause, !.err = err,
                          !.bytesRead = @ + n]
    /\ tsr' = [tsr EXCEPT !.sock = "closed"]

\* readUdp returns err: the deferred calls close the writer and the socket.
readUdp_return(cause, err, n) ==
    /\ rdr' = [rdr EXCEPT !.pc = "returned", !.cause = cause, !.err = err,
                          !.bytesRead = @ + n]
    /\ tsr' = [tsr EXCEPT !.wClosed = @ + 1, !.sock = "closed"]

\* One turn of readUdp's loop that read a datagram of n bytes and wrote it to w.
ReadFromData(n, wr) ==
    IF wr = "ok" /\ tsr.wClosed = 0
    THEN /\ rdr' = [rdr EXCEPT !.bytesRead = @ + n]
         /\ tsr' = [tsr EXCEPT !.wBytes = @ + n]
    ELSE readUdp_return("write", IF wr = "short" /\ tsr.wClosed = 0 THEN "nil" ELSE "write_error", n)

\* One turn of the loop on a socket that TsReader.Close has closed:
\* SetReadDeadline or ReadFrom fails.
ReadFromClosed == readUdp_return("closed", "use_of_closed_connection", 0)

\* serveOneConnection of ts_recorder.go: listen, start the goroutine, keep conn.
serveOneConnection ==
    /\ rdr.file = "none"
    /\ tsr.conn = "nil"
    /\ \E ok \in BOOLEAN :
          IF ok
          THEN /\ tsr' = [tsr EXCEPT !.conn = "open", !.sock = "open"]
               /\ rdr' = [NoRdr EXCEPT !.file = "ts_recorder", !.pc = "loop"]
          ELSE /\ rdr' = [NoRdr EXCEPT !.file = "ts_recorder", !.pc = "not_started"]
               /\ UNCHANGED tsr
    /\ UNCHANGED <<regVars, thrVars, txVars, cbVars, extVars, udpVars>>

\* readUdp of ts_recorder.go: a datagram was read.
readUdp_data ==
    /\ rdr.file = "ts_recorder" /\ rdr.pc = "loop" /\ tsr.sock = "open"
    /\ \E n \in ReadLens, wr \in WriteResults :
          /\ rdr.bytesRead + n <= MaxBytes
          /\ ReadFromData(n, wr)
    /\ UNCHANGED <<regVars, thrVars, txVars, cbVars, extVars, udpVars>>

\* readUdp of ts_recorder.go: the read deadline passed.
readUdp_timeout ==
    /\ rdr.file = "ts_recorder" /\ rdr.pc = "loop" /\ tsr.sock = "open"
    /\ IF rdr.bytesRead = 0
       THEN /\ rdr' = [rdr EXCEPT !.waited = TRUE]
            /\ UNCHANGED tsr
       ELSE readUdp_return("timeout", "EAV_IO_TIMEOUT", 0)
    /\ UNCHANGED <<regVars, thrVars, txVars, cbVars, extVars, udpVars>>

\* readUdp of ts_recorder.go: ReadFrom failed, or the socket was closed.
readUdp_error ==
    /\ rdr.file = "ts_recorder" /\ rdr.pc = "loop"
    /\ IF tsr.sock = "open"
       THEN \E e \in ReadErrors : readUdp_return("read_error", e, 0)
       ELSE ReadFromClosed
    /\ UNCHANGED <<regVars, thrVars, txVars, cbVars, extVars, udpVars>>

\* The goroutine of ts_recorder.go after readUdp returned.
serve_goroutine_end ==
    /\ rdr.file = "ts_recorder" /\ rdr.pc = "returned"
    /\ rdr' = [rdr EXCEPT !.pc = "exited"]
    /\ tsr' = IF rdr.err # "nil"
              THEN [tsr EXCEPT !.ErrChannel = Append(@, rdr.err)]
              ELSE tsr
    /\ UNCHANGED <<regVars, thrVars, txVars, cbVars, extVars, udpVars>>

\* TsReader.Close of ts_recorder.go.
TsReader_Close ==
    /\ rdr.file = "ts_recorder"
    /\ ~tsr.closeReturned
    /\ tsr' = [tsr EXCEPT
          !.sock = IF tsr.conn # "nil" THEN "closed" ELSE @,
          !.conn = "nil",
          !.wClosed = @ + 1,
          !.closeReturned = TRUE,
          !.activeAtClose = ReaderActive]
    /\ UNCHANGED <<regVars, thrVars, txVars, cbVars, extVars, udpVars, rdr>>

\* serveOneConnection of lhr.go.
lhr_serveOneConnection ==
    /\ rdr.file = "none"
    /\ \E ok \in BOOLEAN :
          IF ok
          THEN /\ tsr' = [tsr EXCEPT !.sock = "open"]
               /\ rdr' = [NoRdr EXCEPT !.file = "lhr", !.pc = "loop"]
          ELSE /\ rdr' = [NoRdr EXCEPT !.file = "lhr", !.pc = "not_started"]
               /\ UNCHANGED tsr
    /\ UNCHANGED <<regVars, thrVars, txVars, cbVars, extVars, udpVars>>

\* readUdp of lhr.go: the deferred call closes the writer only.
lhr_readUdp_return(cause, err, n) ==
    /\ rdr' = [rdr EXCEPT !.pc = "returned", !.cause = cause, !.err = err,
                          !.bytesRead = @ + n]
    /\ tsr' = [tsr EXCEPT !.wClosed = @ + 1]

\* readUdp of lhr.go: a datagram was read.
lhr_readUdp_data ==
    /\ rdr.file = "lhr" /\ rdr.pc = "loop"
    /\ \E n \in ReadLens, wr \in WriteResults :
          /\ rdr.bytesRead + n <= MaxBytes
          /\ IF wr = "ok"
             THEN /\ rdr' = [rdr EXCEPT !.bytesRead = @ + n]
                  /\ tsr' = [tsr EXCEPT !.wBytes = @ + n]
             ELSE lhr_readUdp_return("write", IF wr = "short" THEN "nil" ELSE "write_error", n)
    /\ UNCHANGED <<regVars, thrVars, txVars, cbVars, extVars, udpVars>>

\* readUdp of lhr.go: the read deadline passed.
lhr_readUdp_timeout ==
    /\ rdr.file = "lhr" /\ rdr.pc = "loop"
    /\ IF rdr.bytesRead = 0
       THEN /\ rdr' = [rdr EXCEPT !.waited = TRUE]
            /\ UNCHANGED tsr
       ELSE lhr_readUdp_return("timeout", "nil", 0)
    /\ UNCHANGED <<regVars, thrVars, txVars, cbVars, extVars, udpVars>>

\* readUdp of lhr.go: ReadFrom failed.
lhr_readUdp_error ==
    /\ rdr.file = "lhr" /\ rdr.pc = "loop"
    /\ \E e \in ReadErrors : lhr_readUdp_return("read_error", e, 0)
    /\ UNCHANGED <<regVars, thrVars, txVars, cbVars, extVars, udpVars>>

\* The goroutine of lhr.go after readUdp returned: the error is logged.
lhr_goroutine_end ==
    /\ rdr.file = "lhr" /\ rdr.pc = "returned"
    /\ rdr' = [rdr EXCEPT !.pc = "exited"]
    /\ UNCHANGED <<regVars, thrVars, txVars, cbVars, extVars, udpVars, tsr>>

\* The consumer's Read on the RWBuffer: the bytes written and not yet read;
\* with none of them, end of stream once the writer is closed, and a wait
\* until then.
RWBuffer_Read ==
    /\ rdr.file # "none"
    /\ ~tsr.rEof
    /\ IF tsr.rBytes < tsr.wBytes
       THEN tsr' = [tsr EXCEPT !.rBytes = tsr.wBytes]
       ELSE /\ tsr.wClosed > 0
            /\ tsr' = [tsr EXCEPT !.rEof = TRUE]
    /\ UNCHANGED <<regVars, thrVars, txVars, cbVars, extVars, udpVars, rdr>>

NextLive ==
    \/ RWBuffer_Read
    \/ serveOneConnection
    \/ readUdp_data
    \/ readUdp_timeout
    \/ readUdp_error
    \/ serve_goroutine_end
    \/ TsReader_Close
    \/ lhr_serveOneConnection
    \/ lhr_readUdp_data
    \/ lhr_readUdp_timeout
    \/ lhr_readUdp_error
    \/ lhr_goroutine_end

LiveInit ==
    /\ tsr = NoTsr
    /\ rdr = NoRdr

LockInit ==
    /\ gMutex = "free"
    /\ gAccess = NoAccess

\* The session a caller runs for its URL: what it passed to InitUrlIOHandler
\* (registered), the call in progress, the openers NewIOHandler chose, the
\* openers whose Open was called, and the call that has returned.
NoSess == [registered |-> FALSE, call |-> "none", in |-> "nil", out |-> "nil",
           inUsed |-> "nil", outUsed |-> "nil", completed |-> "none"]
Urls == {"u1", "u2"}
NoUrlReg == [inOp |-> [u \in Urls |-> "nil"], outOp |-> [u \in Urls |-> "nil"],
             gIn |-> "nil", gOut |-> "nil", sess |-> [t \in Threads |-> NoSess]]
\* No out_opener call yet; Fill not called yet.
NoSegFile == [type |-> "none", stream_index |-> 0, seg_index |-> 0, url |-> "none",
              gfd |-> 0, rc |-> 0, opened |-> FALSE, dir |-> <<>>, name |-> <<>>]
\* Fill's parameters and locals (startSequence, numSegments, n, the variant
\* the inner loop is at), the sequence numbers of the segments w received,
\* and first: the media sequence of the first playlist read that had a segment
NoHls == [pc |-> "idle", startSequence |-> -1, numSegments |-> 0, n |-> 0,
          variants |-> 0, v |-> 0, w |-> <<>>, first |-> -1, asked |-> -1,
          polls |-> 0, err |-> "nil"]
\* No session has run: nextSkipOverPts is 0 (part_001:54, 130).
NoRec == [n |-> 0, running |-> FALSE, skip_over_pts |-> 0, end_ts |-> 0, pos |-> 0,
          last |-> 0, nextSkipOverPts |-> 0, out1 |-> <<>>, out2 |-> <<>>]
NoPts == [decoding_start_pts |-> 0, input_last_pts_sent_encode |-> 0]
NoCbCall == [op |-> "none", whence |-> 0, kind |-> "none", value |-> 0]

ExtInit ==
    /\ LockInit
    /\ outSlots = <<>>
    /\ outpts = NoPts
    /\ cbcall = NoCbCall
    /\ urlreg = NoUrlReg
    /\ rec = NoRec
    /\ segfile = NoSegFile
    /\ hls = NoHls

Init ==
    /\ RegInit
    /\ ThrInit
    /\ TableInit
    /\ CbInit
    /\ UdpInit
    /\ LiveInit
    /\ ExtInit

Next ==
    \/ \E t \in Threads : NewIOHandler_alloc(t)
    \/ \E t \in Threads : NewIOHandler_open(t)
    \/ \E t \in Threads : NewIOHandler_reg(t)
    \/ AVPipeReadInput
    \/ AVPipeSeekInput
    \/ AVPipeStatInput
    \/ AVPipeCloseInput
    \/ \E t \in Threads : AVPipeOpenOutput_lookup(t)
    \/ \E t \in Threads : AVPipeOpenOutput_open(t)
    \/ AVPipeWriteOutput
    \/ AVPipeSeekOutput
    \/ AVPipeCloseOutput
    \/ AVPipeStatOutput

Spec == Init /\ [][Next]_vars


(***************************************************************************)
(* SpecTx: the session lifecycle. The dispatcher is entered only through   *)
(* in_opener and in_closer.                                                *)
(***************************************************************************)
InitTx ==
    /\ gHandleNum = 0
    /\ gFd = 0
    /\ gHandlers = [k \in IoHandles |-> 0]
    /\ inputs = [k \in IoHandles |-> [opened |-> 0, closed |-> FALSE]]
    /\ outTable = [k \in IoHandles |-> <<>>]
    /\ panicked = FALSE
    /\ ThrInit
    /\ TableInit
    /\ CbInit
    /\ UdpInit
    /\ LiveInit
    /\ ExtInit

NextTx ==
    \/ tx_init
    \/ tx_cancel
    \/ \E t \in OneRunner : tx_run_find(t)
    \/ \E t \in OneRunner : avpipe_tx_fail(t)
    \/ \E t \in OneRunner : avpipe_tx_frame(t)
    \/ \E t \in OneRunner : avpipe_tx_end(t)
    \/ \E t \in OneRunner : tx_run_close(t)
    \/ \E t \in OneRunner : tx_run_free(t)
    \/ \E t \in OneRunner : tx_run_fini(t)

SpecTx == InitTx /\ [][NextTx]_vars


(***************************************************************************)
(* SpecCb: one session's callbacks, as the engine calls them.              *)
(***************************************************************************)
NextCb ==
    \/ cb_in_opener
    \/ cb_in_closer
    \/ in_read_packet
    \/ out_opener
    \/ out_write_packet

SpecCb == Init /\ [][NextCb]_vars

SpecUdp == Init /\ [][NextUdp]_vars

SpecLive == Init /\ [][NextLive]_vars

\* The consumer runs on its own goroutine and is scheduled whenever its Read
\* can return.
SpecLiveFair == SpecLive /\ WF_vars(RWBuffer_Read)

(***************************************************************************)
(* The dispatcher of src/avpipe_handler.go: no lock around the lookups, no *)
(* nil checks, and the output slot computed from the segment and stream    *)
(* index. Each call is one step.                                           *)
(***************************************************************************)
RECURSIVE SumOpened(_, _)
\* Handlers opened under the slots in S of one output table.
SumOpened(tab, S) ==
    IF S = {} THEN 0
    ELSE LET x == CHOOSE x \in S : TRUE IN tab[x].opened + SumOpened(tab, S \ {x})

RECURSIVE OpensMade(_, _)
\* gOutputOpener.Open calls that succeeded, over the sessions in H.
OpensMade(table, H) ==
    IF H = {} THEN 0
    ELSE LET h == CHOOSE h \in H : TRUE IN
         SumOpened(table[h], DOMAIN table[h]) + OpensMade(table, H \ {h})

\* A nil *ioHandler or a nil table entry is dereferenced: the Go runtime panics.
NilPanic ==
    /\ panicked' = TRUE
    /\ UNCHANGED <<gHandleNum, gHandlers, inputs, outTable, ret>>

\* NewIOHandler (avpipe_handler.go:74-98): Open, then gHandleNum++ and the
\* registration under gMutex
NewIOHandler_handler ==
    /\ ~panicked
    /\ gHandleNum < MaxHandleNum
    /\ \E ok \in BOOLEAN :
         IF ok
         THEN LET fd == NewHandleNum(gHandleNum, gHandlers) IN
              /\ gHandleNum' = fd
              /\ inputs' = [inputs EXCEPT ![fd] = [opened |-> @.opened + 1, closed |-> FALSE]]
              /\ gHandlers' = Register(gHandlers, fd)
              /\ Returns(fd, FALSE, TRUE)
         ELSE /\ Returns(-1, FALSE, TRUE)
              /\ UNCHANGED <<gHandleNum, gHandlers, inputs>>
    /\ UNCHANGED <<gFd, outTable, panicked, pc, loc, txVars, cbVars, netVars, extVars>>

\* AVPipeReadInput (avpipe_handler.go:100-117)
AVPipeReadInput_handler ==
    /\ ~panicked
    /\ \E fd \in HandleArgs :
         IF Lookup(gHandlers, fd) = 0
         THEN NilPanic
         ELSE /\ \E r \in {1, 0, -1} : Returns(r, InputClosed(fd), TRUE)
              /\ UNCHANGED <<gHandleNum, gHandlers, inputs, outTable, panicked>>
    /\ UNCHANGED <<gFd, pc, loc, txVars, cbVars, netVars, extVars>>

\* AVPipeCloseInput (avpipe_handler.go:137-148)
AVPipeCloseInput_handler ==
    /\ ~panicked
    /\ \E fd \in HandleArgs :
         IF Lookup(gHandlers, fd) = 0
         THEN NilPanic
         ELSE /\ inputs' = [inputs EXCEPT ![fd].closed = TRUE]
              /\ gHandlers' = Unregister(gHandlers, fd)
              /\ \E r \in {0, -1} : Returns(r, InputClosed(fd), TRUE)
              /\ UNCHANGED <<gHandleNum, outTable, panicked>>
    /\ UNCHANGED <<gFd, pc, loc, txVars, cbVars, netVars, extVars>>

\* AVPipeOpenOutput (avpipe_handler.go:164-196): an invalid stream_type
\* returns -1; etxOut, err := gOutputOpener.Open(...); fd := (seg_index-1)*2 +
\* stream_index; h.outTable[fd] = etxOut
AVPipeOpenOutput_handler ==
    /\ ~panicked
    /\ OpensMade(outTable, DOMAIN outTable) < MaxFd
    /\ \E h \in HandleArgs, valid, ok \in BOOLEAN, st \in StreamIdx, g \in SegIdx :
         IF ~valid \/ ~ok
         THEN /\ Returns(-1, InputClosed(h), valid)
              /\ UNCHANGED <<outTable, panicked>>
         ELSE IF Lookup(gHandlers, h) = 0
         THEN /\ panicked' = TRUE
              /\ UNCHANGED <<outTable, ret>>
         ELSE LET fd == NewFdFormula(gFd, st, g) IN
              /\ outTable' = putOutTable(outTable, h, fd)
              /\ Returns(fd, InputClosed(h), TRUE)
              /\ UNCHANGED panicked
    /\ UNCHANGED <<gHandleNum, gFd, gHandlers, inputs, pc, loc, txVars, cbVars, netVars, extVars>>

\* The slot ids the formula can produce.
FormulaSlots == {NewFdFormula(0, st, g) : st \in StreamIdx, g \in SegIdx}

\* AVPipeWriteOutput (avpipe_handler.go:198-214)
AVPipeWriteOutput_handler ==
    /\ ~panicked
    /\ \E h \in HandleArgs, s \in FormulaSlots :
         IF Lookup(gHandlers, h) = 0 \/ ~hasOut(outTable, h, s)
         THEN NilPanic
         ELSE /\ outTable' = [outTable EXCEPT ![h][s].late = @ \/ outTable[h][s].closed]
              /\ \E r \in {AVPipeWriteOutputRet(n, err) : n \in 0..2, err \in BOOLEAN} :
                   Returns(r, InputClosed(h), TRUE)
              /\ UNCHANGED <<gHandleNum, gHandlers, inputs, panicked>>
    /\ UNCHANGED <<gFd, pc, loc, txVars, cbVars, netVars, extVars>>

\* AVPipeCloseOutput (avpipe_handler.go:238-253)
AVPipeCloseOutput_handler ==
    /\ ~panicked
    /\ \E h \in HandleArgs, s \in FormulaSlots :
         IF Lookup(gHandlers, h) = 0 \/ ~hasOut(outTable, h, s)
         THEN NilPanic
         ELSE /\ outTable' = [outTable EXCEPT ![h][s].closed = TRUE]
              /\ \E r \in {0, -1} : Returns(r, InputClosed(h), TRUE)
              /\ UNCHANGED <<gHandleNum, gHandlers, inputs, panicked>>
    /\ UNCHANGED <<gFd, pc, loc, txVars, cbVars, netVars, extVars>>

NextHandler ==
    \/ NewIOHandler_handler
    \/ AVPipeReadInput_handler
    \/ AVPipeCloseInput_handler
    \/ AVPipeOpenOutput_handler
    \/ AVPipeWriteOutput_handler
    \/ AVPipeCloseOutput_handler

SpecHandler == Init /\ [][NextHandler]_vars

(***************************************************************************)
(* Properties of the dispatcher, checked under Spec.                       *)
(***************************************************************************)
\* C1: once AVPipeCloseInput has unregistered a handle, every dispatcher call
\* that names it afterwards finds no binding: it returns a negative status,
\* invokes no backend method and never gets past its lookup.
C1_NoBindingAfterClose ==
    /\ ret.stale => (ret.rc < 0 /\ ~ret.backend)
    /\ \A t \in Threads : ~loc[t].stale

\* A call naming a closed handle that owns output slots has returned -1.
C1_Witness ==
    /\ ret.stale /\ ret.rc = -1 /\ ~ret.backend
    /\ \E h \in HandleArgs : inputs[h].closed /\ DOMAIN outTable[h] # {}

\* C2: every handle NewIOHandler issues is >= 1 and was issued by no other
\* call, concurrent or earlier, closed or not; a registered handle is bound
\* to the one input that was opened for it.
C2_HandlesIssuedOnce ==
    /\ \A fd \in HandleArgs :
         /\ inputs[fd].opened <= 1
         /\ inputs[fd].opened = 1 => fd >= 1
         /\ gHandlers[fd] # 0 => (gHandlers[fd] = fd /\ inputs[fd].opened = 1)
    /\ \A t, u \in Threads :
         (t # u /\ pc[t] \in {"new_open", "new_reg"} /\ pc[u] \in {"new_open", "new_reg"})
            => loc[t].fd # loc[u].fd
    /\ \A t \in Threads : pc[t] \in {"new_open", "new_reg"} => loc[t].fd >= 1

\* Two NewIOHandler calls are in progress at once, each with its input open.
C2_Witness ==
    \A t \in Threads : pc[t] = "new_reg" /\ inputs[loc[t].fd].opened = 1

\* C3: within one binding every slot id AVPipeOpenOutput returned was
\* returned once: no two opens of the session share a slot id.
C3_SlotsDistinct ==
    \A h \in HandleArgs : \A s \in DOMAIN outTable[h] : outTable[h][s].opened = 1

\* One session holds several slots while another session is registered.
C3_Witness ==
    \E h, k \in HandleArgs :
        /\ h # k /\ gHandlers[k] # 0
        /\ Cardinality(DOMAIN outTable[h]) >= 2

(***************************************************************************)
(* Properties of the session table, checked under SpecTx.                  *)
(***************************************************************************)
\* C4: when every slot of tx_table holds a live record, a tx_init that gets
\* as far as tx_table_put returns -1 in that same step (it does not wait for
\* a slot), and tx_table is left exactly as it was: no entry added, none of
\* the existing entries changed, no handle handed out.
C4_FullTableInitFails ==
    [][(nInit' = nInit + 1 /\ TableFull /\ Len(txctxs') = Len(txctxs) + 1)
          => /\ tx_table' = tx_table
             /\ tret'.op = "tx_init" /\ tret'.rc = -1]_vars

\* A tx_init whose engine context was made has returned -1 on a full table.
C4_Witness ==
    /\ TableFull
    /\ tret.op = "tx_init" /\ tret.rc = -1 /\ tret.ctx # 0

\* C5: when tx_init has returned -1, the input it opened is closed and its
\* I/O handle is no longer registered, and tx_table holds no record of the
\* engine context it made.
C5_FailedInitReleases ==
    (tret.op = "tx_init" /\ tret.rc = -1) =>
        /\ tret.inh # 0 => (gHandlers[tret.inh] = 0 /\ inputs[tret.inh].closed)
        /\ tret.ctx # 0 => \A i \in TxSlots : tx_table[i].txctx # tret.ctx

\* C6: the handles of the live tx_table entries are pairwise distinct.
C6_LiveHandlesDistinct ==
    \A i, k \in TxSlots :
        (i # k /\ tx_table[i].txctx # 0 /\ tx_table[k].txctx # 0)
            => tx_table[i].handle # tx_table[k].handle

\* C7: in every step the cancellation flags of a session that is still alive
\* keep their value or go from 0 to 1, and cancelling a handle a second time
\* changes nothing the first cancel left.
C7_CancelMonotoneIdempotent ==
    [][/\ \A c \in DOMAIN txctxs :
            ~txctxs'[c].freed =>
                /\ txctxs'[c].dcancelled \in {txctxs[c].dcancelled, 1}
                /\ txctxs'[c].ecancelled \in {txctxs[c].ecancelled, 1}
       /\ \A h \in HandleVals :
            LET once == tx_table_cancel(tx_table, txctxs, h) IN
            tx_table_cancel(tx_table, once.ctxs, h) = once]_vars

\* tx_cancel has returned 0 for a session that is inside the engine, and the
\* flags of that session are set.
C7_Witness ==
    /\ tret.op = "tx_cancel" /\ tret.rc = 0 /\ tret.ctx # 0
    /\ txctxs[tret.ctx].dcancelled = 1 /\ txctxs[tret.ctx].ecancelled = 1
    /\ \E t \in Runners :
         tpc[t] = "avpipe_tx" /\ tloc[t].ctx = tret.ctx /\ tloc[t].cancel

\* C8: once tx_cancel has set the flags of a session that is inside the
\* engine, the next engine step of that session leaves the loop (the engine returns to tx_run), and tx_run only ever
\* enters the engine with a session that has not been released.
C8_CancelStopsEngine ==
    [][\A t \in Runners :
         /\ (/\ tpc[t] = "avpipe_tx"
             /\ tloc[t].cancel
             /\ <<tpc'[t], tloc'[t]>> # <<tpc[t], tloc[t]>>)
                => tpc'[t] = "end_tx"
         /\ (tpc[t] = "idle" /\ tpc'[t] = "avpipe_tx")
                => ~txctxs'[tloc'[t].ctx].freed]_vars

\* C9: a tx_run that names a handle whose tx_run has already returned (and
\* that no tx_init handed out again since) never gets past tx_table_find.
C9_ReleasedOnce ==
    \A t \in Runners : ~tloc[t].again

(***************************************************************************)
(* Properties of the callbacks, checked under SpecCb.                      *)
(***************************************************************************)
\* C10: out_write_packet returns buf_size when the backend took the whole
\* buffer, and an error (a negative value) when the backend Write failed,
\* was not reached, or took fewer than buf_size bytes.
C10_WriteReportsShortfall ==
    cbret.op = "out_write_packet" =>
        IF cbret.err \/ cbret.n < cbret.size
        THEN cbret.rc < 0
        ELSE cbret.rc = cbret.size

(***************************************************************************)
(* Properties of the output slots, checked under Spec.                     *)
(***************************************************************************)
\* C11: a slot that AVPipeCloseOutput closed is no longer in the session's
\* output table, and no backend Write is invoked on a closed output.
C11_ClosedSlotsRejectWrites ==
    \A h \in DOMAIN outTable : \A s \in DOMAIN outTable[h] :
        ~outTable[h][s].closed /\ ~outTable[h][s].late

\* C12: the output a slot id maps to is the one handler the open that
\* returned the id obtained: no later open puts another handler under a slot
\* id whose output has not been closed, so every write to the id goes to the
\* same output.
C12_SlotKeepsItsOutput ==
    \A h \in DOMAIN outTable : \A s \in DOMAIN outTable[h] :
        ~outTable[h][s].replaced

\* C13: in_read_packet returns n > 0 when the backend delivered n bytes, 0
\* when the backend signalled end of stream (0 bytes, no error), and a negative
\* value when the backend failed or the handle is unknown.
C13_ReadKeepsEofAndErrorApart ==
    cbret.op = "in_read_packet" =>
        /\ cbret.err => cbret.rc < 0
        /\ (~cbret.err /\ cbret.n = 0) => cbret.rc = 0
        /\ (~cbret.err /\ cbret.n > 0) => cbret.rc = cbret.n


C15_DrainedReadReturnsEos ==
    (txthr.op = "in_read_packet" /\ txthr.drained) => txthr.rc = 0

\* C17: while no byte has ever been received, a timeout does not end the
\* reader thread, and the adapter's read reports no error.
C17_NoDataTimeoutKeepsWaiting ==
    utid.wire = 0 =>
        /\ utid.pc # "exited"
        /\ ~(txthr.op = "in_read_packet" /\ txthr.rc < 0)

C16_TimeoutAfterDataEndsCleanly ==
    (rdr.file = "ts_recorder" /\ rdr.cause = "timeout") =>
        /\ rdr.bytesRead > 0
        /\ tsr.wClosed > 0
        /\ rdr.err = "nil"
        /\ tsr.ErrChannel = <<>>

\* C18: a socket read error other than a timeout stops the reader, adds no
\* data to the writer, and once the goroutine has finished the error is on
\* the error channel.
C18_ReadErrorsReachErrChannel ==
    rdr.cause = "read_error" =>
        /\ rdr.pc \in {"returned", "exited"}
        /\ tsr.wBytes = rdr.bytesRead
        /\ rdr.pc = "exited" =>
               \E i \in 1..Len(tsr.ErrChannel) : tsr.ErrChannel[i] = rdr.err

\* C20: TsReader.Close has not returned while the reader goroutine was
\* still active.
C20_CloseWaitsForReader ==
    tsr.closeReturned => ~tsr.activeAtClose


(***************************************************************************)
(* SpecLock: gMutex in the dispatcher of unnamed/part_004. A call is split  *)
(* where it invokes a backend method, so that a backend call in progress is *)
(* a state: pc[t] names the method thread t is inside.                      *)
(***************************************************************************)
notLock == <<gFd, inputs, outTable, txVars, cbVars, netVars, outSlots, ioVars, sessVars>>

\* Thread t is inside a backend method (Open, Read, Close).
InBackend(t) == pc[t] \in {"new_open", "read_backend", "close_backend"}

\* gMutex.Lock() returns to t only when no thread holds the lock.
CanLock(t) == gMutex = "free"

\* NewIOHandler: gMutex.Lock(); gHandleNum++; fd := gHandleNum; gMutex.Unlock()
Lk_NewIOHandler_alloc(t) ==
    /\ Idle(t)
    /\ CanLock(t)
    /\ gHandleNum < MaxHandleNum
    /\ gHandleNum' = NewHandleNum(gHandleNum, gHandlers)
    /\ pc' = [pc EXCEPT ![t] = "new_open"]
    /\ loc' = [loc EXCEPT ![t] = [NoLoc EXCEPT !.fd = gHandleNum']]
    /\ gAccess' = [t |-> t, locked |-> TRUE]
    /\ UNCHANGED <<gHandlers, panicked, ret, gMutex, notLock>>

\* NewIOHandler: urlInputOpener.Open returns.
Lk_NewIOHandler_open(t) ==
    /\ At(t, "new_open")
    /\ \E ok \in BOOLEAN :
          IF ok
          THEN /\ pc' = [pc EXCEPT ![t] = "new_reg"]
               /\ UNCHANGED <<loc, ret>>
          ELSE Return(t, -1)
    /\ UNCHANGED <<gHandleNum, gHandlers, panicked, lockVars, notLock>>

\* NewIOHandler: gMutex.Lock(); defer gMutex.Unlock(); gHandlers[fd] = h
Lk_NewIOHandler_reg(t) ==
    /\ At(t, "new_reg")
    /\ CanLock(t)
    /\ gHandlers' = Register(gHandlers, loc[t].fd)
    /\ gAccess' = [t |-> t, locked |-> TRUE]
    /\ Return(t, loc[t].fd)
    /\ UNCHANGED <<gHandleNum, panicked, gMutex, notLock>>

\* AVPipeReadInput: the lookup under gMutex, up to the call of h.InReader.
Lk_AVPipeReadInput_lookup(t) ==
    /\ Idle(t)
    /\ CanLock(t)
    /\ \E fd \in HandleArgs :
          IF Lookup(gHandlers, fd) = 0
          THEN /\ Returns(-1, FALSE, FALSE)
               /\ UNCHANGED <<pc, loc>>
          ELSE /\ pc' = [pc EXCEPT ![t] = "read_backend"]
               /\ loc' = [loc EXCEPT ![t] = [NoLoc EXCEPT !.h = fd]]
               /\ UNCHANGED ret
    /\ gAccess' = [t |-> t, locked |-> TRUE]
    /\ UNCHANGED <<gHandleNum, gHandlers, panicked, gMutex, notLock>>

\* AVPipeReadInput: h.input.Read returns.
Lk_AVPipeReadInput_read(t) ==
    /\ At(t, "read_backend")
    /\ \E r \in {1, 0, -1} : Return(t, r)
    /\ UNCHANGED <<gHandleNum, gHandlers, panicked, lockVars, notLock>>

\* AVPipeCloseInput: gMutex.Lock(), the lookup, and on a hit the call of
\* h.InCloser with the lock still held.
Lk_AVPipeCloseInput_lookup(t) ==
    /\ Idle(t)
    /\ CanLock(t)
    /\ \E fd \in HandleArgs :
          IF Lookup(gHandlers, fd) = 0
          THEN /\ Returns(-1, FALSE, FALSE)
               /\ UNCHANGED <<pc, loc, gMutex>>
          ELSE /\ pc' = [pc EXCEPT ![t] = "close_backend"]
               /\ loc' = [loc EXCEPT ![t] = [NoLoc EXCEPT !.h = fd]]
               /\ gMutex' = t
               /\ UNCHANGED ret
    /\ gAccess' = [t |-> t, locked |-> TRUE]
    /\ UNCHANGED <<gHandleNum, gHandlers, panicked, notLock>>

\* AVPipeCloseInput: h.input.Close returns; gHandlers[fd] = nil; gMutex.Unlock()
Lk_AVPipeCloseInput_close(t) ==
    /\ At(t, "close_backend")
    /\ gMutex = t
    /\ gHandlers' = Unregister(gHandlers, loc[t].h)
    /\ gMutex' = "free"
    /\ gAccess' = [t |-> t, locked |-> TRUE]
    /\ \E r \in {0, -1} : Return(t, r)
    /\ UNCHANGED <<gHandleNum, panicked, notLock>>

NextLock ==
    \/ \E t \in Threads : Lk_NewIOHandler_alloc(t)
    \/ \E t \in Threads : Lk_NewIOHandler_open(t)
    \/ \E t \in Threads : Lk_NewIOHandler_reg(t)
    \/ \E t \in Threads : Lk_AVPipeReadInput_lookup(t)
    \/ \E t \in Threads : Lk_AVPipeReadInput_read(t)
    \/ \E t \in Threads : Lk_AVPipeCloseInput_lookup(t)
    \/ \E t \in Threads : Lk_AVPipeCloseInput_close(t)

SpecLock == Init /\ [][NextLock]_vars

\* C21: no thread is inside a backend method while it holds gMutex, so a
\* backend call in progress never keeps another thread out of the registry.
C21_NoBackendCallUnderLock ==
    \A t \in Threads : InBackend(t) => gMutex # t

(***************************************************************************)
(* SpecLockHandler: gMutex in the dispatcher of src/avpipe_handler.go.      *)
(* NewIOHandler writes the registry inside its critical section; the other  *)
(* functions read and write gHandlers without gMutex. An access made while  *)
(* another thread is inside the critical section is a data race on the map: *)
(* the runtime may stop the process, or the access sees the map before or   *)
(* after the other thread's write.                                          *)
(***************************************************************************)
\* Another thread is between gMutex.Lock() and its write of gHandlers.
WriterInside(t) == \E u \in Threads \ {t} : pc[u] = "new_write"

\* What h := gHandlers[fd] can read, given the race.
RacyLookup(t, fd) ==
    {Lookup(gHandlers, fd)} \cup
    (IF WriterInside(t) /\ fd = gHandleNum + 1 THEN {fd} ELSE {})

\* NewIOHandler: gInputOpener.Open returns.
LkH_NewIOHandler_open(t) ==
    /\ Idle(t)
    /\ \E ok \in BOOLEAN :
          IF ok
          THEN /\ pc' = [pc EXCEPT ![t] = "new_reg"]
               /\ UNCHANGED ret
          ELSE /\ Returns(-1, FALSE, TRUE)
               /\ UNCHANGED pc
    /\ UNCHANGED <<gHandleNum, gHandlers, panicked, loc, lockVars, notLock>>

\* NewIOHandler: gMutex.Lock()
LkH_NewIOHandler_lock(t) ==
    /\ At(t, "new_reg")
    /\ CanLock(t)
    /\ gHandleNum < MaxHandleNum
    /\ gMutex' = t
    /\ pc' = [pc EXCEPT ![t] = "new_write"]
    /\ UNCHANGED <<gHandleNum, gHandlers, panicked, loc, ret, gAccess, notLock>>

\* NewIOHandler: gHandleNum++; gHandlers[gHandleNum] = h; return; gMutex.Unlock()
LkH_NewIOHandler_reg(t) ==
    /\ At(t, "new_write")
    /\ gHandleNum' = NewHandleNum(gHandleNum, gHandlers)
    /\ gHandlers' = Register(gHandlers, gHandleNum')
    /\ gMutex' = "free"
    /\ gAccess' = [t |-> t, locked |-> gMutex = t]
    /\ Return(t, gHandleNum')
    /\ UNCHANGED <<panicked, notLock>>

\* AVPipeReadInput: h := gHandlers[handler], then h.InReader; a nil h panics.
LkH_AVPipeReadInput_lookup(t) ==
    /\ Idle(t)
    /\ gAccess' = [t |-> t, locked |-> gMutex = t]
    /\ \E fd \in HandleArgs, fatal \in {FALSE, WriterInside(t)} :
       \E h \in RacyLookup(t, fd) :
          IF fatal \/ h = 0
          THEN /\ panicked' = TRUE
               /\ UNCHANGED <<pc, loc>>
          ELSE /\ pc' = [pc EXCEPT ![t] = "read_backend"]
               /\ loc' = [loc EXCEPT ![t] = [NoLoc EXCEPT !.h = fd]]
               /\ UNCHANGED panicked
    /\ UNCHANGED <<gHandleNum, gHandlers, ret, gMutex, notLock>>

\* AVPipeReadInput: h.input.Read returns.
LkH_AVPipeReadInput_read(t) ==
    /\ At(t, "read_backend")
    /\ \E r \in {1, 0, -1} : Return(t, r)
    /\ UNCHANGED <<gHandleNum, gHandlers, panicked, lockVars, notLock>>

\* AVPipeCloseInput: h := gHandlers[handler], then h.InCloser; a nil h panics.
LkH_AVPipeCloseInput_lookup(t) ==
    /\ Idle(t)
    /\ gAccess' = [t |-> t, locked |-> gMutex = t]
    /\ \E fd \in HandleArgs, fatal \in {FALSE, WriterInside(t)} :
       \E h \in RacyLookup(t, fd) :
          IF fatal \/ h = 0
          THEN /\ panicked' = TRUE
               /\ UNCHANGED <<pc, loc>>
          ELSE /\ pc' = [pc EXCEPT ![t] = "close_backend"]
               /\ loc' = [loc EXCEPT ![t] = [NoLoc EXCEPT !.h = fd]]
               /\ UNCHANGED panicked
    /\ UNCHANGED <<gHandleNum, gHandlers, ret, gMutex, notLock>>

\* AVPipeCloseInput: h.input.Close returns; gHandlers[handler] = nil
LkH_AVPipeCloseInput_close(t) ==
    /\ At(t, "close_backend")
    /\ gAccess' = [t |-> t, locked |-> gMutex = t]
    /\ \E fatal \in {FALSE, WriterInside(t)} :
          IF fatal
          THEN /\ panicked' = TRUE
               /\ UNCHANGED <<gHandlers, pc, loc, ret>>
          ELSE /\ gHandlers' = Unregister(gHandlers, loc[t].h)
               /\ \E r \in {0, -1} : Return(t, r)
               /\ UNCHANGED panicked
    /\ UNCHANGED <<gHandleNum, gMutex, notLock>>

NextLockHandler ==
    \/ \E t \in Threads : LkH_NewIOHandler_open(t)
    \/ \E t \in Threads : LkH_NewIOHandler_lock(t)
    \/ \E t \in Threads : LkH_NewIOHandler_reg(t)
    \/ \E t \in Threads : LkH_AVPipeReadInput_lookup(t)
    \/ \E t \in Threads : LkH_AVPipeReadInput_read(t)
    \/ \E t \in Threads : LkH_AVPipeCloseInput_lookup(t)
    \/ \E t \in Threads : LkH_AVPipeCloseInput_close(t)

SpecLockHandler == Init /\ [][NextLockHandler]_vars

\* C22: every read and every write of gHandlers and gHandleNum is made by a
\* thread that holds gMutex.
C22_RegistryAccessUnderLock ==
    gAccess.locked

(***************************************************************************)
(* Properties of the session calls, checked under SpecTx.                  *)
(***************************************************************************)
\* C23: when the tx_run of a session whose cancel flags are set returns, its
\* status is neither the success status 0 nor the failure status -1.
C23_CancelledStatusDistinct ==
    [][\A t \in Runners :
         (/\ tpc[t] = "avpipe_fini"
          /\ tpc'[t] = "idle"
          /\ txctxs[tloc[t].ctx].dcancelled = 1)
             => tret'.rc \notin {0, -1}]_vars

\* C24: a tx_run or tx_cancel whose handle names no live session record
\* (tret.ctx = 0: the table held no entry with that handle) returns a
\* non-zero status.
C24_LookupMissReported ==
    (tret.op \in {"tx_run", "tx_cancel"} /\ tret.ctx = 0) => tret.rc # 0

(***************************************************************************)
(* SpecSlot: the slot formula of AVPipeOpenOutput in src/avpipe_handler.go, *)
(* applied to the outputs one session opens. stream_index is the index of   *)
(* the video or audio stream in the input (part_002:100-112), seg_index the *)
(* number of a segment.                                                     *)
(***************************************************************************)
\* Highest index of a stream in the input, highest segment number, and the
\* outputs a session has open at once.
MaxStreamIndex == 2
MaxSegIndex == 2
MaxOpenOutputs == 3

\* The pairs (stream_index, seg_index) among the open outputs.
OpenPairs == {<<outSlots[i].stream, outSlots[i].seg>> : i \in 1..Len(outSlots)}

\* AVPipeOpenOutput for a pair that is not open: fd := (seg_index-1)*2 + stream_index
SlotOpen ==
    /\ Len(outSlots) < MaxOpenOutputs
    /\ \E st \in 0..MaxStreamIndex, g \in 1..MaxSegIndex :
          /\ <<st, g>> \notin OpenPairs
          /\ outSlots' = Append(outSlots,
                [stream |-> st, seg |-> g, fd |-> NewFdFormula(0, st, g)])
    /\ UNCHANGED <<regVars, thrVars, txVars, cbVars, netVars, lockVars, ioVars, sessVars>>

\* AVPipeCloseOutput of one of the open outputs.
SlotClose ==
    /\ \E i \in 1..Len(outSlots) :
          outSlots' = SubSeq(outSlots, 1, i - 1) \o SubSeq(outSlots, i + 1, Len(outSlots))
    /\ UNCHANGED <<regVars, thrVars, txVars, cbVars, netVars, lockVars, ioVars, sessVars>>

NextSlot ==
    \/ SlotOpen
    \/ SlotClose

SpecSlot == Init /\ [][NextSlot]_vars

SEEK_SET == 0
SEEK_CUR == 1
SEEK_END == 2
AVSEEK_SIZE == 65536
AVSEEK_FORCE == 131072
Whences == {SEEK_SET, SEEK_CUR, SEEK_END, AVSEEK_SIZE, AVSEEK_FORCE + SEEK_CUR}
SeekOffsets == 0..1                 \* offset values the engine passes
Sizes == {0, MaxBytes}              \* values of the sz field of an ioctx_t

\* whence & 0xFFFF (avpipe.c:203, 307)
MaskWhence(whence) == whence % AVSEEK_SIZE

\* The switch of in_seek and out_seek on the masked whence (avpipe.c:204-213,
\* 308-317): the tracked position after the seek.
SeekPos(pos, sz, offset, whence) ==
    CASE whence = SEEK_SET -> offset
      [] whence = SEEK_CUR -> pos + offset
      [] whence = SEEK_END -> sz - offset
      [] OTHER -> pos

\* h.input.Seek(int64(offset), int(whence)) and outHandler.Seek(int64(offset),
\* int(whence)), as InSeeker and OutSeeker call them (part_004:424-428, 608-613)
BackendSeek(op, offset, whence) ==
    [op |-> op, whence |-> whence, kind |-> "none", value |-> offset]

\* in_seek (avpipe.c:188-218): rc = AVPipeSeekInput(fd, offset, whence);
\* if (rc < 0) return rc; whence = whence & 0xFFFF; switch (whence) ...
\* The backend Seek returns n or fails (err).
in_seek ==
    /\ ~panicked
    /\ inctx.opaque # 0
    /\ \E offset \in SeekOffsets, whence \in Whences, sz \in Sizes,
          n \in 0..1, err \in BOOLEAN :
         LET miss == Lookup(gHandlers, inctx.opaque) = 0
             rc   == IF miss \/ err THEN -1 ELSE n IN
         /\ inctx.pos + offset <= MaxBytes
         /\ cbcall' = IF miss THEN cbcall ELSE BackendSeek("InSeek", offset, whence)
         /\ inctx' = IF rc < 0 THEN inctx
                     ELSE [inctx EXCEPT !.pos = SeekPos(@, sz, offset, MaskWhence(whence))]
         /\ CbReturns("in_seek", rc, 0, 0, miss \/ err)
    /\ UNCHANGED <<regVars, thrVars, txVars, netVars, lockVars, outSlots, outpts, sessVars, outctx>>

\* out_seek (avpipe.c:296-322): rc = AVPipeSeekOutput(h, fd, offset, whence);
\* whence = whence & 0xFFFF; switch (whence) ...; return rc. OutSeeker calls
\* Seek on what getOutTable(fd) returns, without a nil check.
out_seek ==
    /\ ~panicked
    /\ outctx.opaque # 0
    /\ \E offset \in SeekOffsets, whence \in Whences, sz \in Sizes,
          n \in 0..1, err \in BOOLEAN :
         LET miss == Lookup(gHandlers, inctx.opaque) = 0
             rc   == IF miss \/ err THEN -1 ELSE n IN
         /\ outctx.pos + offset <= MaxBytes
         /\ IF ~miss /\ ~hasOut(outTable, inctx.opaque, outctx.opaque)
            THEN /\ panicked' = TRUE
                 /\ UNCHANGED <<outctx, cbret, cbcall>>
            ELSE /\ panicked' = panicked
                 /\ cbcall' = IF miss THEN cbcall
                              ELSE BackendSeek("OutSeek", offset, whence)
                 /\ outctx' = [outctx EXCEPT
                                 !.pos = SeekPos(@, sz, offset, MaskWhence(whence))]
                 /\ CbReturns("out_seek", rc, 0, 0, miss \/ err)
    /\ UNCHANGED <<gHandleNum, gFd, gHandlers, inputs, outTable, thrVars, txVars,
                   netVars, lockVars, outSlots, outpts, sessVars, inctx>>

\* AVStatType values a backend handler's Stat receives (part_004:183-188)
AV_OUT_STAT_BYTES_WRITTEN == 2
AV_OUT_STAT_DECODING_START_PTS == 3
AV_OUT_STAT_ENCODING_END_PTS == 4

\* avp_stat_t values the engine passes to a stat callback
StatTypes == {"in_stat_bytes_read", "out_stat_bytes_written",
              "out_stat_decoding_start_pts", "out_stat_encoding_end_pts"}
OutStatTypes == StatTypes \ {"in_stat_bytes_read"}
PtsVals == {5, 7}                   \* PTS values the engine records

\* The engine records the PTS of the first frame it decodes and of the last
\* frame it sends to the encoder in the output's counters.
xc_record_pts ==
    /\ ~panicked
    /\ outctx.opaque # 0
    /\ \E d \in PtsVals, e \in PtsVals :
         outpts' = [decoding_start_pts |-> d, input_last_pts_sent_encode |-> e]
    /\ UNCHANGED <<regVars, thrVars, txVars, cbVars, netVars, lockVars, outSlots, cbcall, sessVars>>

\* The counter an AVPipeStatOutput call of out_stat points at (avpipe.c:349-361)
out_stat_counter_written_bytes(stat_type) == outctx.bytes

out_stat_counter(stat_type) ==
    CASE stat_type = "out_stat_bytes_written" -> outctx.bytes
      [] stat_type = "out_stat_decoding_start_pts" -> outpts.decoding_start_pts
      [] stat_type = "out_stat_encoding_end_pts" -> outpts.input_last_pts_sent_encode

\* The AVStatType OutStat tags the value with (part_004:665-675)
OutStatTag(avp_stat) ==
    CASE avp_stat = "out_stat_bytes_written" -> AV_OUT_STAT_BYTES_WRITTEN
      [] avp_stat = "out_stat_decoding_start_pts" -> AV_OUT_STAT_DECODING_START_PTS
      [] avp_stat = "out_stat_encoding_end_pts" -> AV_OUT_STAT_ENCODING_END_PTS

\* outHandler.Stat(tag, &statArgs), statArgs := *(*uint64)(stat_args)
BackendStat(avp_stat, stat_args) ==
    [op |-> "OutStat", whence |-> 0, kind |-> OutStatTag(avp_stat), value |-> stat_args]

\* out_stat (avpipe.c:337-363): for the three output kinds rc =
\* AVPipeStatOutput(h, fd, stat_type, &counter), for any other kind rc stays
\* 0. AVPipeStatOutput (part_004:640-655) returns -1 for a handle that is
\* not registered or when OutStat fails; OutStat (657-678) fails for a slot
\* with no handler, else calls Stat on it, which may fail (err).
out_stat ==
    /\ ~panicked
    /\ outctx.opaque # 0
    /\ \E stat_type \in StatTypes, err \in BOOLEAN :
         LET known == stat_type \in OutStatTypes
             miss  == Lookup(gHandlers, inctx.opaque) = 0
             nilh  == ~hasOut(outTable, inctx.opaque, outctx.opaque)
             rc    == IF ~known THEN 0
                      ELSE IF miss \/ nilh \/ err THEN -1 ELSE 0 IN
         /\ cbcall' = IF known /\ ~miss /\ ~nilh
                      THEN BackendStat(stat_type, out_stat_counter(stat_type))
                      ELSE NoCbCall
         /\ cbret' = [op |-> "out_stat", rc |-> rc, size |-> 0, n |-> 0,
                      err |-> rc # 0, stat_type |-> stat_type]
    /\ UNCHANGED <<regVars, thrVars, txVars, netVars, lockVars, outSlots, outpts,
                   sessVars, inctx, outctx>>

NextIo ==
    \/ cb_in_opener
    \/ cb_in_closer
    \/ out_opener
    \/ in_seek
    \/ out_seek

\* SpecStat: one session's outputs with the stat callback.
NextStat ==
    \/ cb_in_opener
    \/ cb_in_closer
    \/ out_opener
    \/ out_write_packet
    \/ xc_record_pts
    \/ out_stat

SpecStat == Init /\ [][NextStat]_vars

SpecIo == Init /\ [][NextIo]_vars

\* C26: every Seek a backend handler receives from in_seek or out_seek
\* carries a whence with the engine's flag bits cleared, one of from-start,
\* from-current and from-end.
C26_BackendSeesMaskedWhence ==
    cbcall.op \in {"InSeek", "OutSeek"} => cbcall.whence \in {SEEK_SET, SEEK_CUR, SEEK_END}

\* A step of out_stat, and whether the slot it names has a handler.
OutStatStep == cbret'.op = "out_stat" /\ <<cbret, cbcall>>' # <<cbret, cbcall>>
SlotHasHandler ==
    /\ Lookup(gHandlers, inctx.opaque) # 0
    /\ hasOut(outTable, inctx.opaque, outctx.opaque)

\* C28: a stat callback of kind bytesWritten, decodingStartPts or
\* encodingEndPts hands the handler of the slot the value of written_bytes,
\* decoding_start_pts or input_last_pts_sent_encode, tagged with the stat
\* type of that kind; a callback of any other kind calls no handler and
\* returns 0; a callback of one of the three kinds for a slot without a
\* handler calls none and returns an error.
C28_StatDeliversMatchingCounter ==
    [][OutStatStep =>
        LET k == cbret'.stat_type IN
        /\ (k = "out_stat_bytes_written" /\ SlotHasHandler) =>
              cbcall' = [op |-> "OutStat", whence |-> 0,
                         kind |-> AV_OUT_STAT_BYTES_WRITTEN, value |-> outctx.bytes]
        /\ (k = "out_stat_decoding_start_pts" /\ SlotHasHandler) =>
              cbcall' = [op |-> "OutStat", whence |-> 0,
                         kind |-> AV_OUT_STAT_DECODING_START_PTS,
                         value |-> outpts.decoding_start_pts]
        /\ (k = "out_stat_encoding_end_pts" /\ SlotHasHandler) =>
              cbcall' = [op |-> "OutStat", whence |-> 0,
                         kind |-> AV_OUT_STAT_ENCODING_END_PTS,
                         value |-> outpts.input_last_pts_sent_encode]
        /\ k \notin OutStatTypes => cbcall' = NoCbCall /\ cbret'.rc = 0
        /\ (k \in OutStatTypes /\ ~SlotHasHandler) =>
              cbcall' = NoCbCall /\ cbret'.rc # 0]_vars

\* The end PTS was delivered while the three counters held different values.
C28_Witness ==
    /\ cbret.op = "out_stat" /\ cbret.stat_type = "out_stat_encoding_end_pts"
    /\ cbret.rc = 0
    /\ cbcall.op = "OutStat" /\ cbcall.kind = AV_OUT_STAT_ENCODING_END_PTS
    /\ cbcall.value = outpts.input_last_pts_sent_encode
    /\ outctx.bytes > 0
    /\ outpts.decoding_start_pts # outpts.input_last_pts_sent_encode

(***************************************************************************)
(* SpecUrl: URL-specific openers (unnamed/part_004). Each caller works on  *)
(* its own URL: it may register openers for it, then runs Tx or Probe on   *)
(* it. Every access to gURLInputOpeners and gURLOutputOpeners is a step of *)
(* its own, so that two callers can be at an access at the same time.      *)
(***************************************************************************)
UrlOf(t) == IF t = "t1" THEN "u1" ELSE "u2"
OpIn(t)  == IF t = "t1" THEN "in1" ELSE "in2"      \* the inputOpener t registers
OpOut(t) == IF t = "t1" THEN "out1" ELSE "out2"    \* the outputOpener t registers

urlOther == <<regVars, loc, ret, txVars, cbVars, netVars, gAccess, outSlots, ioVars, rec, toolVars>>

\* InitIOHandler (part_004:304-307)
InitIOHandler ==
    /\ ~panicked
    /\ urlreg.gIn = "nil"
    /\ urlreg' = [urlreg EXCEPT !.gIn = "gin", !.gOut = "gout"]
    /\ UNCHANGED <<pc, gMutex, urlOther>>

\* The session of a caller whose call has returned: what it registered stays.
Completed(ss, call) == [NoSess EXCEPT !.registered = ss.registered, !.completed = call]

\* InitUrlIOHandler (part_004:312-324), both openers not nil:
\* gMutex.Lock()
InitUrlIOHandler_lock_in(t) ==
    /\ ~panicked
    /\ pc[t] = "idle" /\ ~urlreg.sess[t].registered
    /\ CanLock(t)
    /\ gMutex' = t
    /\ pc' = [pc EXCEPT ![t] = "init_in"]
    /\ urlreg' = [urlreg EXCEPT !.sess[t] = NoSess]
    /\ UNCHANGED urlOther

\* gURLInputOpeners[url] = inputOpener; gMutex.Unlock()
InitUrlIOHandler_in(t) ==
    /\ pc[t] = "init_in"
    /\ urlreg' = [urlreg EXCEPT !.inOp[UrlOf(t)] = OpIn(t)]
    /\ gMutex' = "free"
    /\ pc' = [pc EXCEPT ![t] = "init_lock_out"]
    /\ UNCHANGED urlOther

\* gMutex.Lock()
InitUrlIOHandler_lock_out(t) ==
    /\ pc[t] = "init_lock_out"
    /\ CanLock(t)
    /\ gMutex' = t
    /\ pc' = [pc EXCEPT ![t] = "init_out"]
    /\ UNCHANGED <<urlreg, urlOther>>

\* gURLOutputOpeners[url] = outputOpener; gMutex.Unlock()
InitUrlIOHandler_out(t) ==
    /\ pc[t] = "init_out"
    /\ urlreg' = [urlreg EXCEPT !.outOp[UrlOf(t)] = OpOut(t),
                                !.sess[t].registered = TRUE]
    /\ gMutex' = "free"
    /\ pc' = [pc EXCEPT ![t] = "idle"]
    /\ UNCHANGED urlOther

\* Tx(nil, url) (part_004:729-733): returns -1 at once
Tx_nil_params(t) ==
    /\ ~panicked
    /\ pc[t] = "idle"
    /\ urlreg' = [urlreg EXCEPT !.sess[t] = Completed(@, "Tx")]
    /\ UNCHANGED <<pc, gMutex, urlOther>>

\* Tx and Probe up to the engine's in_opener (part_004:795, 843), which
\* calls NewIOHandler(url)
UrlCall_start(t) ==
    /\ ~panicked
    /\ pc[t] = "idle"
    /\ \E call \in {"Tx", "Probe"} :
         urlreg' = [urlreg EXCEPT !.sess[t].call = call, !.sess[t].completed = "none"]
    /\ pc' = [pc EXCEPT ![t] = "new_in"]
    /\ UNCHANGED <<gMutex, urlOther>>

\* NewIOHandler (part_004:329-332): urlInputOpener, ok :=
\* gURLInputOpeners[filename]; if !ok { urlInputOpener = gInputOpener }
NewIOHandler_read_in(t) ==
    /\ pc[t] = "new_in"
    /\ urlreg' = [urlreg EXCEPT !.sess[t].in =
                     IF urlreg.inOp[UrlOf(t)] # "nil" THEN urlreg.inOp[UrlOf(t)]
                                                      ELSE urlreg.gIn]
    /\ pc' = [pc EXCEPT ![t] = "new_out"]
    /\ UNCHANGED <<gMutex, urlOther>>

\* NewIOHandler (part_004:334-342): the same for the output opener; then
\* if urlInputOpener == nil || urlOutputOpener == nil { return -1 }
NewIOHandler_read_out(t) ==
    /\ pc[t] = "new_out"
    /\ LET o == IF urlreg.outOp[UrlOf(t)] # "nil" THEN urlreg.outOp[UrlOf(t)]
                                                  ELSE urlreg.gOut IN
         /\ urlreg' = [urlreg EXCEPT !.sess[t].out = o]
         /\ pc' = [pc EXCEPT ![t] = IF urlreg.sess[t].in = "nil" \/ o = "nil"
                                    THEN "call_failed" ELSE "new_open"]
    /\ UNCHANGED <<gMutex, urlOther>>

\* NewIOHandler (part_004:345-353): input, err := urlInputOpener.Open(fd,
\* filename); if err != nil { return -1 }
NewIOHandler_url_open(t) ==
    /\ pc[t] = "new_open"
    /\ urlreg' = [urlreg EXCEPT !.sess[t].inUsed = urlreg.sess[t].in]
    /\ \E ok \in BOOLEAN :
         pc' = [pc EXCEPT ![t] = IF ok THEN "running" ELSE "call_failed"]
    /\ UNCHANGED <<gMutex, urlOther>>

\* AVPipeOpenOutput (part_004:545): outHandler, err := gOutputOpener.Open(...),
\* for an output of a Tx session. A nil gOutputOpener makes the call panic.
AVPipeOpenOutput_url(t) ==
    /\ ~panicked
    /\ pc[t] = "running" /\ urlreg.sess[t].call = "Tx"
    /\ IF urlreg.gOut = "nil"
       THEN /\ panicked' = TRUE
            /\ UNCHANGED urlreg
       ELSE /\ urlreg' = [urlreg EXCEPT !.sess[t].outUsed = urlreg.gOut]
            /\ UNCHANGED panicked
    /\ UNCHANGED <<gHandleNum, gFd, gHandlers, inputs, outTable>>
    /\ UNCHANGED <<pc, gMutex, loc, ret, txVars, cbVars, netVars, gAccess, outSlots, ioVars, rec, toolVars>>

\* C.tx or C.probe returns
UrlCall_engine_end(t) ==
    /\ ~panicked
    /\ pc[t] = "running"
    /\ \E ok \in BOOLEAN :
         pc' = [pc EXCEPT ![t] = IF ok THEN "del_in" ELSE "call_failed"]
    /\ UNCHANGED <<urlreg, gMutex, urlOther>>

\* After a failed engine call Tx goes on to its deletes (part_004:795-798);
\* Probe returns: if int(rc) <= 0 { return nil, err } (part_004:844-846)
UrlCall_failed(t) ==
    /\ ~panicked
    /\ pc[t] = "call_failed"
    /\ IF urlreg.sess[t].call = "Tx"
       THEN /\ pc' = [pc EXCEPT ![t] = "del_in"]
            /\ UNCHANGED urlreg
       ELSE /\ pc' = [pc EXCEPT ![t] = "idle"]
            /\ urlreg' = [urlreg EXCEPT !.sess[t] = Completed(@, "Probe")]
    /\ UNCHANGED <<gMutex, urlOther>>

\* delete(gURLInputOpeners, url) (part_004:797, 904)
UrlCall_delete_in(t) ==
    /\ ~panicked
    /\ pc[t] = "del_in"
    /\ urlreg' = [urlreg EXCEPT !.inOp[UrlOf(t)] = "nil"]
    /\ pc' = [pc EXCEPT ![t] = "del_out"]
    /\ UNCHANGED <<gMutex, urlOther>>

\* delete(gURLOutputOpeners, url); return (part_004:798-800, 905-907)
UrlCall_delete_out(t) ==
    /\ ~panicked
    /\ pc[t] = "del_out"
    /\ urlreg' = [urlreg EXCEPT !.outOp[UrlOf(t)] = "nil",
                     !.sess[t] = [NoSess EXCEPT !.completed = urlreg.sess[t].call]]
    \* both entries of the URL are gone: nothing is registered any more
    /\ pc' = [pc EXCEPT ![t] = "idle"]
    /\ UNCHANGED <<gMutex, urlOther>>

NextUrl ==
    \/ InitIOHandler
    \/ \E t \in Threads : InitUrlIOHandler_lock_in(t)
    \/ \E t \in Threads : InitUrlIOHandler_in(t)
    \/ \E t \in Threads : InitUrlIOHandler_lock_out(t)
    \/ \E t \in Threads : InitUrlIOHandler_out(t)
    \/ \E t \in Threads : Tx_nil_params(t)
    \/ \E t \in Threads : UrlCall_start(t)
    \/ \E t \in Threads : NewIOHandler_read_in(t)
    \/ \E t \in Threads : NewIOHandler_read_out(t)
    \/ \E t \in Threads : NewIOHandler_url_open(t)
    \/ \E t \in Threads : AVPipeOpenOutput_url(t)
    \/ \E t \in Threads : UrlCall_engine_end(t)
    \/ \E t \in Threads : UrlCall_failed(t)
    \/ \E t \in Threads : UrlCall_delete_in(t)
    \/ \E t \in Threads : UrlCall_delete_out(t)

SpecUrl == Init /\ [][NextUrl]_vars

\* C29: a session whose caller registered openers for its URL has its input
\* opened by the registered input opener and its outputs by the registered
\* output opener; a session without registered openers uses the global ones.
C29_SessionUsesUrlOpeners ==
    \A t \in Threads :
        LET ss == urlreg.sess[t] IN
        /\ ss.registered =>
              /\ ss.inUsed \in {"nil", OpIn(t)}
              /\ ss.outUsed \in {"nil", OpOut(t)}
        /\ ~ss.registered =>
              /\ ss.inUsed \in {"nil", "gin"}
              /\ ss.outUsed \in {"nil", "gout"}

\* The map access a caller is about to make: which map, and whether it
\* writes. (InitUrlIOHandler holds gMutex at its writes, NewIOHandler and
\* the deletes of Tx and Probe hold nothing.)
AtMapAccess(t) ==
    CASE pc[t] = "init_in"  -> [map |-> "in",  write |-> TRUE]
      [] pc[t] = "init_out" -> [map |-> "out", write |-> TRUE]
      [] pc[t] = "new_in"   -> [map |-> "in",  write |-> FALSE]
      [] pc[t] = "new_out"  -> [map |-> "out", write |-> FALSE]
      [] pc[t] = "del_in"   -> [map |-> "in",  write |-> TRUE]
      [] pc[t] = "del_out"  -> [map |-> "out", write |-> TRUE]
      [] OTHER -> [map |-> "none", write |-> FALSE]

\* Two callers are at an access to the same map, one of them a delete of Tx
\* or Probe, with no lock between them.
DeleteRaces ==
    \E t1, t2 \in Threads :
        /\ t1 # t2
        /\ pc[t1] \in {"del_in", "del_out"}
        /\ AtMapAccess(t2).map = AtMapAccess(t1).map

\* C30: once Tx or Probe has returned to a caller, with or without an
\* error, neither map holds an opener for the caller's URL; and no delete of
\* Tx or Probe is ever concurrent with another caller's access to the same
\* map.
C30_OpenersRemovedWithoutRace ==
    /\ \A t \in Threads :
          urlreg.sess[t].completed # "none" =>
              /\ urlreg.inOp[UrlOf(t)] = "nil"
              /\ urlreg.outOp[UrlOf(t)] = "nil"
    /\ ~DeleteRaces

(***************************************************************************)
(* SpecRec: two consecutive sessions on one live stream, as recordFmp4     *)
(* runs them (unnamed/part_001), with the engine loop of unnamed/part_002. *)
(* The frames of the stream have the PTS 1..MaxPts, one frame duration     *)
(* apart, and arrive in PTS order.                                         *)
(***************************************************************************)
\* Last PTS of the live stream in the runs explored.
MaxPts == 4
\* extra_pts, in frame durations: packets read past the duration before the
\* loop breaks (5 in part_002:633).
ExtraPts == 1

recOther == <<regVars, thrVars, txVars, cbVars, netVars, lockVars, outSlots, ioVars, urlreg, toolVars>>

\* recordFmp4 up to avpipe.Tx (part_001:111-132): videoParams.SkipOverPts =
\* int32(lhr.nextSkipOverPts), passed on as skip_over_pts (part_004:739).
\* The first session reads the stream from its first frame; the reader
\* feeds the second one from a frame no later than the one after the last
\* frame encoded. end_ts is start_time_ts + duration_ts.
recordFmp4_start ==
    /\ ~rec.running
    /\ rec.n < 2
    /\ \E r \in 1..(rec.last + 1), e \in 2..(MaxPts + 1) :
         /\ e > r
         /\ rec' = [rec EXCEPT !.n = @ + 1, !.running = TRUE,
                               !.skip_over_pts = ToI32(ToU32(rec.nextSkipOverPts)),
                               !.end_ts = e, !.pos = r]
    /\ UNCHANGED recOther

\* One round of the loop of avpipe_tx (part_002:636-672) on the next video
\* packet, with decode_packet (part_002:548-558): the frame is encoded when
\* its pts < start_time_ts + duration_ts.
avpipe_tx_packet ==
    /\ rec.running
    /\ rec.pos <= MaxPts
    /\ rec.pos < rec.end_ts + ExtraPts
    /\ LET pts == rec.pos IN
         rec' = IF pts < rec.end_ts
                THEN [rec EXCEPT !.pos = @ + 1, !.last = pts,
                        !.out1 = IF rec.n = 1 THEN Append(@, pts) ELSE @,
                        !.out2 = IF rec.n = 2 THEN Append(@, pts) ELSE @]
                ELSE [rec EXCEPT !.pos = @ + 1]
    /\ UNCHANGED recOther

\* The loop ends at the end of the input or at the break (part_002:646-650);
\* Tx returns and leaves the PTS of the last frame sent to the encoder in
\* lhr.nextSkipOverPts (part_001:132-133).
avpipe_tx_done ==
    /\ rec.running
    /\ rec.pos > MaxPts \/ rec.pos >= rec.end_ts + ExtraPts
    /\ rec' = [rec EXCEPT !.running = FALSE, !.nextSkipOverPts = rec.last]
    /\ UNCHANGED recOther

NextRec ==
    \/ recordFmp4_start
    \/ avpipe_tx_packet
    \/ avpipe_tx_done

SpecRec == Init /\ [][NextRec]_vars

DigitChars == <<"0", "1", "2", "3", "4", "5", "6", "7", "8", "9">>

\* printf %d of n >= 0: its decimal digits
RECURSIVE Dec(_)
Dec(n) == IF n < 10 THEN <<DigitChars[n + 1]>>
                    ELSE Dec(n \div 10) \o <<DigitChars[(n % 10) + 1]>>

\* printf %05d of n >= 0: zeros in front up to a width of 5
RECURSIVE ZeroPad(_, _)
ZeroPad(digits, width) ==
    IF Len(digits) >= width THEN digits ELSE ZeroPad(<<"0">> \o digits, width)
Dec05(n) == ZeroPad(Dec(n), 5)

\* outctx->type values; avpipe_other stands for any value outside the enum
SegmentTypes == {"avpipe_video_segment", "avpipe_audio_segment",
                 "avpipe_mp4_segment", "avpipe_fmp4_segment"}
UrlNamedTypes == {"avpipe_video_init_stream", "avpipe_audio_init_stream",
                  "avpipe_video_m3u", "avpipe_audio_m3u", "avpipe_aes_128_key",
                  "avpipe_mp4_stream", "avpipe_fmp4_stream"}
OutTypes == SegmentTypes \cup UrlNamedTypes \cup
            {"avpipe_manifest", "avpipe_master_m3u", "avpipe_other"}
OutStreams == {0, 1, 12}            \* outctx->stream_index
OutSegs == {1, 42, 99999, 100000}   \* outctx->seg_index
OutUrls == {"init-stream0.m4s", "media_0.m3u8"}   \* names the engine asks for
InFds == {3, 10}                    \* file descriptor of the session's input

\* sprintf(dir, "./O/O%d", gfd) (part_000:310)
SegDir(gfd) == <<"./O/O">> \o Dec(gfd)

\* segbase and extension of the segment kinds (part_000:339-365)
mp4_segment_as_chunk(type) == <<"chunk-stream", ".m4s">>

segbase(type) ==
    CASE type \in {"avpipe_video_segment", "avpipe_audio_segment"} ->
             <<"chunk-stream", ".m4s">>
      [] type = "avpipe_mp4_segment" -> <<"segment", ".mp4">>
      [] type = "avpipe_fmp4_segment" -> <<"fsegment", ".mp4">>

\* The switch of out_opener (part_000:316-370): the path written to segname,
\* <<>> for the default branch.
segname(type, stream_index, seg_index, url, gfd) ==
    CASE type = "avpipe_manifest" ->
             [dir |-> SegDir(gfd), name |-> <<"dash.mpd">>]
      [] type = "avpipe_master_m3u" ->
             [dir |-> SegDir(gfd), name |-> <<"master.m3u8">>]
      [] type \in UrlNamedTypes ->
             [dir |-> SegDir(gfd), name |-> <<url>>]
      [] type \in SegmentTypes ->
             [dir |-> <<"./">> \o SegDir(gfd),
              name |-> <<segbase(type)[1]>> \o Dec(stream_index) \o <<"-">>
                       \o Dec05(seg_index) \o <<segbase(type)[2]>>]
      [] OTHER -> [dir |-> <<>>, name |-> <<>>]

\* out_opener (part_000:298-383): default: return -1; else fd = open(segname,
\* O_RDWR | O_CREAT | O_TRUNC, 0644); if (fd < 0) return -1; return 0
file_out_opener ==
    \E type \in OutTypes, st \in OutStreams, sg \in OutSegs, url \in OutUrls,
       gfd \in InFds, ok \in BOOLEAN :
         LET path  == segname(type, st, sg, url, gfd)
             known == type # "avpipe_other" IN
         segfile' = [type |-> type, stream_index |-> st, seg_index |-> sg, url |-> url,
                     gfd |-> gfd,
                     rc |-> IF known /\ ok THEN 0 ELSE -1,
                     opened |-> known /\ ok,
                     dir |-> IF known THEN path.dir ELSE <<>>,
                     name |-> IF known THEN path.name ELSE <<>>]
    /\ UNCHANGED <<regVars, thrVars, txVars, cbVars, netVars, lockVars, outSlots, ioVars,
                   urlreg, rec, hls>>

NextSeg == file_out_opener

SpecSeg == Init /\ [][NextSeg]_vars

\* The number a sequence of decimal digits stands for.
RECURSIVE ParseDec(_)
ParseDec(digits) ==
    IF digits = <<>> THEN 0
    ELSE LET d == CHOOSE i \in 1..10 : DigitChars[i] = digits[Len(digits)] IN
         10 * ParseDec(SubSeq(digits, 1, Len(digits) - 1)) + (d - 1)

\* name is prefix, the stream index in decimal, "-", the segment index in
\* decimal zero-padded to five digits, ext.
IsSegmentName(name, prefix, stream, seg, ext) ==
    \E k \in 2..(Len(name) - 1) :
        LET left  == SubSeq(name, 2, k - 1)
            right == SubSeq(name, k + 1, Len(name) - 1) IN
        /\ name[1] = prefix /\ name[Len(name)] = ext /\ name[k] = "-"
        /\ Len(left) >= 1 /\ (Len(left) > 1 => left[1] # "0")
        /\ ParseDec(left) = stream
        /\ Len(right) >= 5 /\ (Len(right) > 5 => right[1] # "0")
        /\ ParseDec(right) = seg

\* C31: the file name out_opener opens is dash.mpd for a manifest,
\* master.m3u8 for a master playlist, the requested name for init, key, m3u
\* and stream kinds, chunk-stream<stream>-<seg:05d>.m4s for video and audio
\* segments, segment<stream>-<seg:05d>.mp4 for mp4 segments and
\* fsegment<stream>-<seg:05d>.mp4 for fmp4 segments, whatever the session;
\* for any other kind it returns -1 and opens no file.
C31_OutputNameByKind ==
    LET f == segfile IN
    /\ f.type = "avpipe_manifest" => f.name = <<"dash.mpd">>
    /\ f.type = "avpipe_master_m3u" => f.name = <<"master.m3u8">>
    /\ f.type \in UrlNamedTypes => f.name = <<f.url>>
    /\ f.type \in {"avpipe_video_segment", "avpipe_audio_segment"} =>
          IsSegmentName(f.name, "chunk-stream", f.stream_index, f.seg_index, ".m4s")
    /\ f.type = "avpipe_mp4_segment" =>
          IsSegmentName(f.name, "segment", f.stream_index, f.seg_index, ".mp4")
    /\ f.type = "avpipe_fmp4_segment" =>
          IsSegmentName(f.name, "fsegment", f.stream_index, f.seg_index, ".mp4")
    /\ f.type = "avpipe_other" => f.rc = -1 /\ ~f.opened /\ f.name = <<>>

\* An mp4 segment of stream 12 with a six-digit segment index was opened.
C31_Witness ==
    /\ segfile.type = "avpipe_mp4_segment" /\ segfile.opened /\ segfile.rc = 0
    /\ segfile.stream_index = 12 /\ segfile.seg_index = 100000
    /\ segfile.name = <<"segment", "1", "2", "-", "1", "0", "0", "0", "0", "0", ".mp4">>

(***************************************************************************)
(* Properties of the session table and of tx_run's epilogue, checked under *)
(* SpecTx.                                                                 *)
(***************************************************************************)
\* The session context c has a record in tx_table.
InTable(c) == \E i \in TxSlots : tx_table[i].txctx = c

\* A tx_run is past its tx_table_free on the context c.
PastTableFree(c) == \E t \in Runners : tpc[t] = "avpipe_fini" /\ tloc[t].ctx = c

\* C32: a session has a record in tx_table from the return of its tx_init
\* until its tx_run removes it in the epilogue, and at no other time: no
\* record points at a context that was freed, every session that tx_init
\* put in the table and whose tx_run has not reached the removal has its
\* record, and a tx_run that ran the engine returns 0 or -1.
C32_RecordFromInitToEpilogue ==
    /\ \A c \in DOMAIN txctxs :
          /\ InTable(c) => ~txctxs[c].freed
          /\ (txctxs[c].index # -1 /\ ~txctxs[c].freed /\ ~PastTableFree(c))
                => InTable(c)
    /\ (tret.op = "tx_run" /\ tret.ctx # 0) => tret.rc \in {0, -1}

C38_CancelNeverTouchesFreed ==
    [][(tret'.op = "tx_cancel" /\ tx_cancel) =>
         (tret'.ctx # 0 => ~txctxs[tret'.ctx].freed)]_vars

(***************************************************************************)
(* SpecRun: tx_run called from two threads at once (avpipe.c:565-593).     *)
(* tx_table_find releases tx_mutex before it returns, so every statement   *)
(* of tx_run after it interleaves with the other thread's.                 *)
(***************************************************************************)
NextRun ==
    \/ tx_init
    \/ \E t \in Runners : tx_run_find(t)
    \/ \E t \in Runners : avpipe_tx_fail(t)
    \/ \E t \in Runners : avpipe_tx_frame(t)
    \/ \E t \in Runners : avpipe_tx_end(t)
    \/ \E t \in Runners : tx_run_close(t)
    \/ \E t \in Runners : tx_run_free(t)
    \/ \E t \in Runners : tx_run_fini(t)

SpecRun == InitTx /\ [][NextRun]_vars

\* C37: no two threads are inside tx_run (engine or epilogue) on the same
\* session context at the same time, and no thread is inside tx_run on a
\* context that has been freed.
C37_OneRunnerPerSession ==
    /\ \A t, u \in Runners :
          (t # u /\ tpc[t] # "idle" /\ tpc[u] # "idle")
              => tloc[t].ctx # tloc[u].ctx
    /\ \A t \in Runners :
          tpc[t] # "idle" => ~txctxs[tloc[t].ctx].freed

QueuedLenOk ==
    /\ \A i \in 1..Len(udp_channel) :
          udp_channel[i].len \in 1..MAX_UDP_PKT_LEN
    /\ utid.pkt # NoPkt => utid.pkt.len \in 1..MAX_UDP_PKT_LEN

\* C40: every step leaves only packets with 1 <= len <= MAX_UDP_PKT_LEN on
\* the channel, and an in_read_packet that takes a packet from the channel
\* returns a count >= 1.
C40_QueuedPacketsHaveData ==
    [][/\ QueuedLenOk'
       /\ uinctx'.taken = uinctx.taken + 1 => txthr'.rc >= 1]_vars

(***************************************************************************)
(* The end of the stream on the reader's queue, checked under SpecLiveFair.*)
(***************************************************************************)
\* readUdp has returned.
ReadUdpDone == rdr.pc \in {"returned", "exited"}

\* C35: once readUdp has returned, by whichever path, the writer of the
\* queue is closed, nothing is written to it any more, and the consumer gets
\* to the end of the stream.
C35_ReaderExitEndsStream ==
    /\ [](ReadUdpDone => tsr.wClosed >= 1)
    /\ [][ReadUdpDone => tsr'.wBytes = tsr.wBytes]_vars
    /\ (ReadUdpDone ~> tsr.rEof)

\* readUdp of ts_recorder.go stopped on the inactivity timeout after data,
\* and the consumer has read the data and then the end of the stream.
C35_Witness ==
    /\ rdr.file = "ts_recorder" /\ rdr.cause = "timeout" /\ rdr.pc = "exited"
    /\ tsr.wBytes > 0 /\ tsr.rBytes = tsr.wBytes /\ tsr.rEof

(***************************************************************************)
(* SpecHls: LiveHlsReader.Fill of live/lhr.go (187-226) with readPlaylist  *)
(* (132-185) and readSegment (97-110). A media playlist is its media       *)
(* sequence number and its number of segments; a segment is named by its   *)
(* sequence number.                                                        *)
(***************************************************************************)
MaxSeq == 2             \* largest media sequence number of a playlist
MaxPlaylistLen == 2     \* most segments in a playlist
MaxNumSegments == 2     \* largest numSegments asked of Fill
MaxVariants == 2        \* most variants in the master playlist
MaxPolls == 3           \* readPlaylist calls in the runs explored

hlsOther == <<regVars, thrVars, txVars, cbVars, netVars, lockVars, outSlots,
              ioVars, urlreg, rec, segfile>>

RECURSIVE readPlaylistLoop(_, _, _, _, _, _)
\* for _, segment := range mediaPlaylist.Segments { ... }: the i-th of len
\* segments; st holds seqNo, numRead, lastSeqNo and what w received. failed
\* holds the positions of the segments whose readSegment returns an error
\* (nothing of them is counted as received by w); the error is dropped.
readPlaylistLoop(i, len, startSequence, numSegments, failed, st) ==
    IF i > len THEN st
    ELSE IF st.seqNo < startSequence
    THEN readPlaylistLoop(i + 1, len, startSequence, numSegments, failed,
                          [st EXCEPT !.seqNo = @ + 1])
    ELSE IF st.numRead = numSegments THEN st
    ELSE readPlaylistLoop(i + 1, len, startSequence, numSegments, failed,
             [seqNo |-> st.seqNo + 1, numRead |-> st.numRead + 1,
              lastSeqNo |-> st.seqNo,
              w |-> IF i \in failed THEN st.w ELSE Append(st.w, st.seqNo)])

\* readPlaylist(u, startSequence, numSegments, w) on a playlist that was
\* fetched and decoded: numRead, lastSeqNo and w afterwards.
readPlaylist(SeqNo, len, startSequence, numSegments, failed, w) ==
    readPlaylistLoop(1, len, startSequence, numSegments, failed,
                     [seqNo |-> SeqNo, numRead |-> 0, lastSeqNo |-> -1, w |-> w])

\* Fill: readMasterPlaylist, then into the loops, or back with its error, or
\* back at once when numSegments <= 0.
Fill_start ==
    /\ hls.pc = "idle"
    /\ \E startSequence \in -1..1, numSegments \in 0..MaxNumSegments,
          variants \in 1..MaxVariants, ok \in BOOLEAN :
          hls' = [NoHls EXCEPT
                    !.startSequence = startSequence, !.asked = startSequence,
                    !.numSegments = numSegments, !.variants = variants,
                    !.pc = IF ok /\ numSegments > 0 THEN "loop" ELSE "returned",
                    !.err = IF ok THEN "nil" ELSE "master_playlist"]
    /\ UNCHANGED hlsOther

\* The end of one turn of the inner loop: the next variant, or the test of
\* the outer loop after the last one.
NextVariant(h) ==
    IF h.v + 1 < h.variants THEN [h EXCEPT !.v = @ + 1]
    ELSE IF h.n < h.numSegments THEN [h EXCEPT !.v = 0]
    ELSE [h EXCEPT !.pc = "returned"]

\* One turn of the inner loop: readPlaylist on the variant's playlist.
\* numSegments-n <= 0, a failed fetch or a failed decode make readPlaylist
\* return an error, and log.Fatal ends the process.
Fill_readPlaylist ==
    /\ hls.pc = "loop"
    /\ hls.polls < MaxPolls
    /\ \E SeqNo \in 0..MaxSeq, len \in 0..MaxPlaylistLen,
          failed \in SUBSET (1..MaxPlaylistLen), ok \in BOOLEAN :
          IF hls.numSegments - hls.n <= 0 \/ ~ok
          THEN hls' = [hls EXCEPT !.pc = "fatal", !.polls = @ + 1]
          ELSE LET r == readPlaylist(SeqNo, len, hls.startSequence,
                                     hls.numSegments - hls.n, failed, hls.w)
                   got == [hls EXCEPT
                             !.polls = @ + 1,
                             !.w = r.w,
                             !.first = IF @ = -1 /\ len > 0 THEN SeqNo ELSE @,
                             !.n = @ + r.numRead,
                             !.startSequence =
                                 IF r.numRead > 0 THEN r.lastSeqNo + 1 ELSE @]
               IN hls' = NextVariant(got)
    /\ UNCHANGED hlsOther

NextHls ==
    \/ Fill_start
    \/ Fill_readPlaylist

SpecHls == Init /\ [][NextHls]_vars

\* The sequence numbers in w are strictly increasing.
StrictlyIncreasing(w) == \A i \in 1..(Len(w) - 1) : w[i] < w[i + 1]

\* C36: the sequence numbers of the segments written to w are strictly
\* increasing; when Fill has returned without an error, w has received
\* exactly numSegments segments; and with startSequence = -1 the first one
\* written is the first segment of the first playlist read.
C36_FillWritesExactlyNumSegments ==
    /\ StrictlyIncreasing(hls.w)
    /\ (hls.pc = "returned" /\ hls.err = "nil") =>
          Len(hls.w) = hls.numSegments
    /\ (hls.asked = -1 /\ hls.w # <<>>) => hls.w[1] = hls.first

(***************************************************************************)
(* SpecClose: the input callbacks of the dispatcher (unnamed/part_004) on  *)
(* two threads. AVPipeReadInput, AVPipeSeekInput and AVPipeStatInput look  *)
(* the handler up under gMutex, release it and then call the backend       *)
(* method; the call is split at the unlock and at the invocation.          *)
(* AVPipeCloseInput calls Close with gMutex held.                          *)
(***************************************************************************)
InputOps == {"read", "seek", "stat"}

CallPc(op)    == op \o "_call"
BackendPc(op) == op \o "_backend"

\* Close has been invoked on the handler registered as h: a thread is inside
\* its Close, or the entry is gone (handle numbers are not given out twice).
CloseInvoked(h) ==
    \/ Lookup(gHandlers, h) = 0
    \/ \E u \in Threads : pc[u] = "close_backend" /\ loc[u].h = h

\* gMutex.Lock(); h := gHandlers[fd]; if h == nil { unlock; return -1 };
\* gMutex.Unlock()
Cl_Input_lookup(t, op) ==
    /\ Idle(t)
    /\ CanLock(t)
    /\ \E fd \in HandleArgs :
          IF Lookup(gHandlers, fd) = 0
          THEN /\ Returns(-1, FALSE, FALSE)
               /\ UNCHANGED <<pc, loc>>
          ELSE /\ pc' = [pc EXCEPT ![t] = CallPc(op)]
               /\ loc' = [loc EXCEPT ![t] = [NoLoc EXCEPT !.h = fd]]
               /\ UNCHANGED ret
    /\ gAccess' = [t |-> t, locked |-> TRUE]
    /\ UNCHANGED <<gHandleNum, gHandlers, panicked, gMutex, notLock>>

\* h.InReader / h.InSeeker / h.InStat is called: the backend method is
\* invoked on the handler found before the unlock.
Cl_Input_invoke(t, op) ==
    /\ At(t, CallPc(op))
    /\ pc' = [pc EXCEPT ![t] = BackendPc(op)]
    /\ loc' = [loc EXCEPT ![t].stale = CloseInvoked(loc[t].h)]
    /\ UNCHANGED <<gHandleNum, gHandlers, panicked, ret, lockVars, notLock>>

\* The backend method returns, and the callback with it.
Cl_Input_return(t, op) ==
    /\ At(t, BackendPc(op))
    /\ \E r \in {0, -1} : Return(t, r)
    /\ UNCHANGED <<gHandleNum, gHandlers, panicked, lockVars, notLock>>

NextClose ==
    \/ \E t \in Threads : Lk_NewIOHandler_alloc(t)
    \/ \E t \in Threads : Lk_NewIOHandler_open(t)
    \/ \E t \in Threads : Lk_NewIOHandler_reg(t)
    \/ \E t \in Threads, op \in InputOps : Cl_Input_lookup(t, op)
    \/ \E t \in Threads, op \in InputOps : Cl_Input_invoke(t, op)
    \/ \E t \in Threads, op \in InputOps : Cl_Input_return(t, op)
    \/ \E t \in Threads : Lk_AVPipeCloseInput_lookup(t)
    \/ \E t \in Threads : Lk_AVPipeCloseInput_close(t)

SpecClose == Init /\ [][NextClose]_vars

\* C39: no thread is inside a Read, Seek or Stat that was invoked on a
\* handler after Close had been invoked on it.
C39_NoInputCallAfterClose ==
    \A t \in Threads :
        pc[t] \in {BackendPc(op) : op \in InputOps} => ~loc[t].stale

====
